---- MODULE Spec2Model ----
(***************************************************************************)
(* A model of buildkite-ls: the document store (DocumentManager), the LSP  *)
(* server's notification and feature handlers, the plugin schema registry  *)
(* and the pipeline schema loader.                                         *)
(*                                                                         *)
(* Each component has its own specification over the shared variables:     *)
(*   SpecDoc       concurrent callers of the DocumentManager               *)
(*   SpecServer    the server behind the serial JSON-RPC dispatch loop     *)
(*   SpecRegistry  concurrent callers of plugins.Registry                  *)
(*   SpecLoader    concurrent callers of schema.Loader                     *)
(* SpecDoc, SpecRegistry and SpecLoader leave the variables of the other   *)
(* components unchanged; SpecServer runs the handlers one at a time over   *)
(* the store, the loader and the registry they call.                       *)
(*                                                                         *)
(* Functions are checked on their own, applied once to an input drawn when *)
(* the run starts:                                                         *)
(*   SpecClassify   Server.isBuildkiteFile                                 *)
(*   SpecContextAt  DocumentManager.GetContentAtPosition                   *)
(*   SpecSplit      splitLines                                             *)
(*   SpecAnalyze    context.Analyzer.AnalyzeContext                        *)
(*   SpecStep       Server.validateSingleStep                              *)
(*   SpecComplete   CompletionProvider.GetCompletions                      *)
(*   SpecTokens     Server.SemanticTokensFull and SemanticTokensRange      *)
(*   SpecErrorLine  Pipeline.GetLineForError                               *)
(*   SpecInsert     AnalyzeContext without and with a line put in          *)
(* SpecSweep starts the registry with a cache filled beforehand and sweeps *)
(* it as the clock advances.                                               *)
(***************************************************************************)
EXTENDS Integers, Sequences, FiniteSets, TLC

VARIABLES
    \* ---- DocumentManager (src/internal/lsp/completion.go:1255-1385)
    documents,   \* dm.documents: the map from URI to the Document it points to
    dmWriter,    \* the caller holding dm.mu in write mode, or Nil
    dmReaders,   \* the callers holding dm.mu in read mode
    dpc,         \* each caller's position inside a DocumentManager method
    dargs,       \* each caller's arguments of the method it is running
    held,        \* the *Document a caller got from GetDocument and still holds
    obs,         \* what a caller last read through the pointer it holds
    lastWrite,   \* history: the last open/update/close completed per URI
    \* ---- schema.Loader (src/internal/schema/loader.go:15-56)
    schemaData,      \* l.schemaData: the fetched schema bytes, or Nil
    ldWriter,        \* the caller holding l.mu in write mode, or Nil
    lpc,             \* each caller's position inside GetSchemaData
    lret,            \* how each caller's last GetSchemaData returned
    schemaRequests,  \* history: the HTTP GETs of SchemaURL issued so far
    ldCalls,         \* history: the GetSchemaData calls started so far
    \* ---- plugins.Registry (src/unnamed/part_003:546-691)
    plugins,     \* r.plugins: plugin reference -> CachedPluginSchema
    regLockers,  \* the callers holding r.mu in write mode
    now,         \* time.Now()
    rpc,         \* each caller's position inside GetPluginSchema
    rkey,        \* pluginName of the call each caller is in
    rcand,       \* the index of the candidate URL the caller's fetch is at
    rurl,        \* the URL of the http.Get the caller has in flight
    rlastErr,    \* lastErr of the caller's fetchPluginSchema
    rresp,       \* history: the answer the caller's fetch received last
    rret,        \* what the caller's GetPluginSchema returned
    \* ---- lsp.Server (src/unnamed/part_001)
    spc,         \* where the handler of the connection is
    smsg,        \* the notification it is handling
    lastText,    \* history: the text of the last didOpen/didChange per URI
    pub,         \* the last publishDiagnostics sent per URI
    fres,        \* the answer to the message handled last, if a feature request
    handled,     \* history: the notifications handled so far
    net,         \* the HTTP request the handler has in flight, or "none"
    \* ---- functions checked on their own
    arg,         \* the input the function is applied to
    res          \* what it returned: empty before the call, then one value

docVars == <<documents, dmWriter, dmReaders, dpc, dargs, held, obs, lastWrite>>
ldrVars == <<schemaData, ldWriter, lpc, lret, schemaRequests, ldCalls>>

regVars == <<plugins, regLockers, now, rpc, rkey, rcand, rurl, rlastErr, rresp, rret>>

srvVars == <<spc, smsg, lastText, pub, fres, handled, net>>

funVars == <<arg, res>>

vars == <<docVars, ldrVars, regVars, srvVars, funVars>>

\* What each component leaves alone.
docOthers == <<ldrVars, regVars, srvVars, funVars>>
ldrOthers == <<docVars, regVars, srvVars, funVars>>
regOthers == <<docVars, ldrVars, srvVars, funVars>>
funOthers == <<docVars, ldrVars, regVars, srvVars>>

Nil == "nil"

----------------------------------------------------------------------------
(* A text is a sequence of characters, or of pieces of text that hold no   *)
(* line end, and of line ends; a line is a sequence of the same.           *)

LF == "\n"
CR == "\r"

\* unicode.IsSpace for the characters of the lines.
IsSpace(c) == c \in {" ", "\t"}

RECURSIVE TrimLeft(_)
TrimLeft(s) == IF s # <<>> /\ IsSpace(s[1]) THEN TrimLeft(Tail(s)) ELSE s

RECURSIVE TrimRight(_)
TrimRight(s) ==
    IF s # <<>> /\ IsSpace(s[Len(s)]) THEN TrimRight(SubSeq(s, 1, Len(s) - 1)) ELSE s

\* strings.TrimSpace
TrimSpace(s) == TrimRight(TrimLeft(s))

\* strings.HasPrefix
HasPrefix(s, prefix) == Len(s) >= Len(prefix) /\ SubSeq(s, 1, Len(prefix)) = prefix

\* strings.Contains
Contains(s, substr) ==
    \E i \in 1..(Len(s) - Len(substr) + 1) : SubSeq(s, i, i + Len(substr) - 1) = substr

\* A slip: an empty line is left out of the result.
RECURSIVE SplitLoopSkipEmpty(_, _, _, _)
SplitLoopSkipEmpty(content, i, lines, current) ==
    IF i > Len(content)
    THEN IF current # <<>> \/ Len(lines) = 0
         THEN Append(lines, current)
         ELSE lines
    ELSE IF content[i] = LF
         THEN SplitLoopSkipEmpty(content, i + 1,
                                 IF current # <<>> THEN Append(lines, current) ELSE lines,
                                 <<>>)
         ELSE IF content[i] # CR
              THEN SplitLoopSkipEmpty(content, i + 1, lines, Append(current, content[i]))
              ELSE SplitLoopSkipEmpty(content, i + 1, lines, current)

\* The body of splitLines' loop over the characters of content, then the
\* trailing-segment rule after the loop.
RECURSIVE SplitLoop(_, _, _, _)
SplitLoop(content, i, lines, current) ==
    IF i > Len(content)
    THEN IF current # <<>> \/ Len(lines) = 0
         THEN Append(lines, current)
         ELSE lines
    ELSE IF content[i] = LF
         THEN SplitLoop(content, i + 1, Append(lines, current), <<>>)
         ELSE IF content[i] # CR
              THEN SplitLoop(content, i + 1, lines, Append(current, content[i]))
              ELSE SplitLoop(content, i + 1, lines, current)

\* A slip: a line feed at the end of the text gives an empty last line.
splitLinesFinal(content) ==
    IF content = <<>> THEN <<>>
    ELSE IF content[Len(content)] = LF
    THEN Append(SplitLoop(content, 1, <<>>, <<>>), <<>>)
    ELSE SplitLoop(content, 1, <<>>, <<>>)

\* splitLines: no lines for the empty text, otherwise the loop.
splitLines(content) ==
    IF content = <<>> THEN <<>> ELSE SplitLoop(content, 1, <<>>, <<>>)

----------------------------------------------------------------------------
(* URIs are sequences of tokens: the scheme, path separators, directory    *)
(* names, a file stem and a file extension.                                *)

BkURI == <<"file://", "/", "p", "/", ".buildkite", "/", "pipeline", ".yml">>
PlainURI == <<"file://", "/", "tmp", "/", "test", ".yml">>

URIs == {BkURI, PlainURI}

----------------------------------------------------------------------------
(* DocumentManager under concurrent callers.                               *)
(*                                                                         *)
(* dm.documents maps a URI to a *Document.  A pointer is represented by    *)
(* what it refers to: the entry of the map holds the Document itself, and  *)
(* a pointer a caller holds is either "live" (it aliases the object the    *)
(* map holds under that URI, so writes through the map show through it)    *)
(* or "detached" (the map no longer refers to the object: OpenDocument     *)
(* stored a new object under the URI, or CloseDocument deleted the entry;  *)
(* nothing writes to a detached object any more).                          *)

Callers == {"c1", "c2"}

\* The (version, text) pairs clients send: each version of a document has its text.
DocWrites == {[version |-> 1, content |-> <<>>],
              [version |-> 2, content |-> <<"a", CR, LF, "a">>]}

\* The Document literal of OpenDocument and of UpdateDocument's else branch.
NewDocument(uri, version, content) ==
    [URI |-> uri, Version |-> version, Content |-> content, Lines |-> splitLines(content)]

NoArgs == [uri |-> <<>>, version |-> 0, content |-> <<>>]

\* What a nil *Document is recorded as.
NoDocument == [URI |-> <<>>, Version |-> 0, Content |-> <<>>, Lines |-> <<>>]

NilPtr == [kind |-> "nil", uri |-> <<>>, doc |-> NoDocument]
LivePtr(uri) == [kind |-> "live", uri |-> uri, doc |-> NoDocument]

\* The object a held pointer refers to.
Target(h) == IF h.kind = "live" THEN documents[h.uri] ELSE h.doc

\* The map stops referring to the object under uri: pointers to it keep the object.
Detach(hd, uri) ==
    [p \in Callers |->
        IF hd[p].kind = "live" /\ hd[p].uri = uri
        THEN [kind |-> "detached", uri |-> <<>>, doc |-> documents[uri]]
        ELSE hd[p]]

\* delete(m, uri)
MapDelete(m, uri) == [u \in DOMAIN m \ {uri} |-> m[u]]

\* sync.RWMutex: Lock waits for the writer and all readers, RLock for the writer.
CanLock == dmWriter = Nil /\ dmReaders = {}
CanRLock == dmWriter = Nil

NoWrite == [op |-> "none", version |-> 0, content |-> <<>>, existed |-> FALSE]

\* NewDocumentManager
DocInit ==
    /\ documents = <<>>
    /\ dmWriter = Nil
    /\ dmReaders = {}
    /\ dpc = [p \in Callers |-> "idle"]
    /\ dargs = [p \in Callers |-> NoArgs]
    /\ held = [p \in Callers |-> NilPtr]
    /\ obs = [p \in Callers |-> {}]
    /\ lastWrite = [u \in URIs |-> NoWrite]

\* OpenDocument: Lock, store a new Document under uri, Unlock.
OpenDocument(p, uri, version, content) ==
    /\ dpc[p] = "idle"
    /\ CanLock
    /\ documents' = (uri :> NewDocument(uri, version, content)) @@ documents
    /\ held' = Detach(held, uri)
    /\ lastWrite' = [lastWrite EXCEPT ![uri] =
            [op |-> "open", version |-> version, content |-> content, existed |-> FALSE]]
    /\ UNCHANGED <<dmWriter, dmReaders, dpc, dargs, obs>>
    /\ UNCHANGED docOthers

\* UpdateDocument, first step: Lock.
UpdateDocumentLock(p, uri, version, content) ==
    /\ dpc[p] = "idle"
    /\ CanLock
    /\ dmWriter' = p
    /\ dargs' = [dargs EXCEPT ![p] = [uri |-> uri, version |-> version, content |-> content]]
    /\ dpc' = [dpc EXCEPT ![p] = "update"]
    /\ UNCHANGED <<documents, dmReaders, held, obs, lastWrite>>
    /\ UNCHANGED docOthers

UpdateWritten(p) ==
    [op |-> "update", version |-> dargs[p].version, content |-> dargs[p].content,
     existed |-> dargs[p].uri \in DOMAIN documents]

\* A slip: the in-place update leaves the line index of the old text.
UpdatedLinesStale(doc, content) == doc.Lines

\* The value UpdateDocument assigns to doc.Lines.
UpdatedLines(doc, content) == splitLines(content)

\* UpdateDocument, the lookup: an absent document is created and the method returns.
UpdateDocumentCreate(p) ==
    /\ dpc[p] = "update"
    /\ dargs[p].uri \notin DOMAIN documents
    /\ documents' = (dargs[p].uri :>
            NewDocument(dargs[p].uri, dargs[p].version, dargs[p].content)) @@ documents
    /\ lastWrite' = [lastWrite EXCEPT ![dargs[p].uri] = UpdateWritten(p)]
    /\ dmWriter' = Nil
    /\ dpc' = [dpc EXCEPT ![p] = "idle"]
    /\ dargs' = [dargs EXCEPT ![p] = NoArgs]
    /\ UNCHANGED <<dmReaders, held, obs>>
    /\ UNCHANGED docOthers

\* UpdateDocument on a present document: doc.Version = version.
UpdateDocumentVersion(p) ==
    /\ dpc[p] = "update"
    /\ dargs[p].uri \in DOMAIN documents
    /\ documents' = [documents EXCEPT ![dargs[p].uri].Version = dargs[p].version]
    /\ dpc' = [dpc EXCEPT ![p] = "update_content"]
    /\ UNCHANGED <<dmWriter, dmReaders, dargs, held, obs, lastWrite>>
    /\ UNCHANGED docOthers

\* doc.Content = content.
UpdateDocumentContent(p) ==
    /\ dpc[p] = "update_content"
    /\ documents' = [documents EXCEPT ![dargs[p].uri].Content = dargs[p].content]
    /\ dpc' = [dpc EXCEPT ![p] = "update_lines"]
    /\ UNCHANGED <<dmWriter, dmReaders, dargs, held, obs, lastWrite>>
    /\ UNCHANGED docOthers

\* doc.Lines = splitLines(content), then the deferred Unlock.
UpdateDocumentLines(p) ==
    /\ dpc[p] = "update_lines"
    /\ documents' = [documents EXCEPT ![dargs[p].uri].Lines =
                        UpdatedLines(documents[dargs[p].uri], dargs[p].content)]
    /\ lastWrite' = [lastWrite EXCEPT ![dargs[p].uri] = UpdateWritten(p)]
    /\ dmWriter' = Nil
    /\ dpc' = [dpc EXCEPT ![p] = "idle"]
    /\ dargs' = [dargs EXCEPT ![p] = NoArgs]
    /\ UNCHANGED <<dmReaders, held, obs>>
    /\ UNCHANGED docOthers

\* CloseDocument: Lock, delete(dm.documents, uri), Unlock.
CloseDocument(p, uri) ==
    /\ dpc[p] = "idle"
    /\ CanLock
    /\ documents' = MapDelete(documents, uri)
    /\ held' = Detach(held, uri)
    /\ lastWrite' = [lastWrite EXCEPT ![uri] =
            [op |-> "close", version |-> 0, content |-> <<>>, existed |-> FALSE]]
    /\ UNCHANGED <<dmWriter, dmReaders, dpc, dargs, obs>>
    /\ UNCHANGED docOthers

\* GetDocument, first step: RLock.  What an earlier call returned is dropped.
GetDocumentRLock(p, uri) ==
    /\ dpc[p] = "idle"
    /\ CanRLock
    /\ dmReaders' = dmReaders \cup {p}
    /\ dargs' = [dargs EXCEPT ![p] = [NoArgs EXCEPT !.uri = uri]]
    /\ dpc' = [dpc EXCEPT ![p] = "get"]
    /\ held' = [held EXCEPT ![p] = NilPtr]
    /\ obs' = [obs EXCEPT ![p] = {}]
    /\ UNCHANGED <<documents, dmWriter, lastWrite>>
    /\ UNCHANGED docOthers

\* The pointer GetDocument returns for uri.
GetDocumentResult(uri) == IF uri \in DOMAIN documents THEN LivePtr(uri) ELSE NilPtr

\* GetDocument: doc, exists := dm.documents[uri]; RUnlock; return doc, exists.
GetDocumentReturn(p) ==
    /\ dpc[p] = "get"
    /\ held' = [held EXCEPT ![p] = GetDocumentResult(dargs[p].uri)]
    /\ dmReaders' = dmReaders \ {p}
    /\ dpc' = [dpc EXCEPT ![p] = "got"]
    /\ UNCHANGED <<documents, dmWriter, dargs, obs, lastWrite>>
    /\ UNCHANGED docOthers

\* The holder of a *Document reads its fields and lets the pointer go; it takes
\* no lock to do so.
ReadHeld(p) ==
    /\ dpc[p] = "got"
    /\ held[p].kind # "nil"
    /\ obs' = [obs EXCEPT ![p] = {Target(held[p])}]
    /\ held' = [held EXCEPT ![p] = NilPtr]
    /\ dpc' = [dpc EXCEPT ![p] = "idle"]
    /\ dargs' = [dargs EXCEPT ![p] = NoArgs]
    /\ UNCHANGED <<documents, dmWriter, dmReaders, lastWrite>>
    /\ UNCHANGED docOthers

\* The caller of GetDocument found no document.
GetDocumentAbsent(p) ==
    /\ dpc[p] = "got"
    /\ held[p].kind = "nil"
    /\ dpc' = [dpc EXCEPT ![p] = "idle"]
    /\ dargs' = [dargs EXCEPT ![p] = NoArgs]
    /\ UNCHANGED <<documents, dmWriter, dmReaders, held, obs, lastWrite>>
    /\ UNCHANGED docOthers

DocNext ==
    \/ \E p \in Callers, uri \in URIs, w \in DocWrites :
          \/ OpenDocument(p, uri, w.version, w.content)
          \/ UpdateDocumentLock(p, uri, w.version, w.content)
    \/ \E p \in Callers, uri \in URIs :
          \/ CloseDocument(p, uri)
          \/ GetDocumentRLock(p, uri)
    \/ \E p \in Callers :
          \/ UpdateDocumentCreate(p)
          \/ UpdateDocumentVersion(p)
          \/ UpdateDocumentContent(p)
          \/ UpdateDocumentLines(p)
          \/ GetDocumentReturn(p)
          \/ ReadHeld(p)
          \/ GetDocumentAbsent(p)

----------------------------------------------------------------------------
(* schema.Loader under concurrent callers of ValidateJSON.                 *)

\* Most GetSchemaData calls in one run.
MaxLoaderCalls == 4

\* What the schema URL can answer: no answer, a status other than 200, a body
\* that cannot be read, or a schema document.
LoaderOutcomes == {"transport_error", "non200", "read_error", "ok"}
SchemaBody == "schema.json"

\* NewLoader
LoaderInit ==
    /\ schemaData = Nil
    /\ ldWriter = Nil
    /\ lpc = [p \in Callers |-> "idle"]
    /\ lret = [p \in Callers |-> "none"]
    /\ schemaRequests = 0
    /\ ldCalls = 0

\* GetSchemaData, the read-locked fast path: RLock; schemaData != nil returns it;
\* otherwise RUnlock and go on to Lock.
GetSchemaDataFast(p) ==
    /\ lpc[p] = "idle"
    /\ ldCalls < MaxLoaderCalls
    /\ ldWriter = Nil
    /\ ldCalls' = ldCalls + 1
    /\ IF schemaData # Nil
       THEN /\ lret' = [lret EXCEPT ![p] = "cached"]
            /\ lpc' = lpc
       ELSE /\ lret' = [lret EXCEPT ![p] = "none"]
            /\ lpc' = [lpc EXCEPT ![p] = "lock"]
    /\ UNCHANGED <<schemaData, ldWriter, schemaRequests>>
    /\ UNCHANGED ldrOthers

\* l.mu.Lock()
GetSchemaDataLock(p) ==
    /\ lpc[p] = "lock"
    /\ ldWriter = Nil
    /\ ldWriter' = p
    /\ lpc' = [lpc EXCEPT ![p] = "locked"]
    /\ UNCHANGED <<schemaData, lret, schemaRequests, ldCalls>>
    /\ UNCHANGED ldrOthers

\* A slip: no second look at schemaData once the write lock is held.
NoSecondCheck == FALSE

\* The double check under the write lock: if l.schemaData != nil.
SchemaCachedUnderLock == schemaData # Nil

\* Under the write lock: return the schema another caller stored meanwhile, or
\* issue http.Get(SchemaURL).
GetSchemaDataCheck(p) ==
    /\ lpc[p] = "locked"
    /\ IF SchemaCachedUnderLock
       THEN /\ lret' = [lret EXCEPT ![p] = "cached"]
            /\ lpc' = [lpc EXCEPT ![p] = "idle"]
            /\ ldWriter' = Nil
            /\ UNCHANGED schemaRequests
       ELSE /\ schemaRequests' = schemaRequests + 1
            /\ lpc' = [lpc EXCEPT ![p] = "fetching"]
            /\ UNCHANGED <<lret, ldWriter>>
    /\ UNCHANGED <<schemaData, ldCalls>>
    /\ UNCHANGED ldrOthers

\* The answer to http.Get: an error, a non-200 status and an unreadable body return
\* an error and store nothing; a read body is stored.  The deferred Unlock follows.
GetSchemaDataResponse(p, outcome) ==
    /\ lpc[p] = "fetching"
    /\ IF outcome = "ok"
       THEN /\ schemaData' = SchemaBody
            /\ lret' = [lret EXCEPT ![p] = "fetched"]
       ELSE /\ schemaData' = schemaData
            /\ lret' = [lret EXCEPT ![p] = "error"]
    /\ ldWriter' = Nil
    /\ lpc' = [lpc EXCEPT ![p] = "idle"]
    /\ UNCHANGED <<schemaRequests, ldCalls>>
    /\ UNCHANGED ldrOthers

LoaderNext ==
    \/ \E p \in Callers :
          \/ GetSchemaDataFast(p)
          \/ GetSchemaDataLock(p)
          \/ GetSchemaDataCheck(p)
    \/ \E p \in Callers, outcome \in LoaderOutcomes : GetSchemaDataResponse(p, outcome)

----------------------------------------------------------------------------
(* plugins.Registry: the TTL cache of plugin schemas and the fetch of a    *)
(* plugin.yml from its candidate URLs.                                     *)

\* The last instant of the clock in one run.
MaxTime == 2

\* r.cacheTTL in clock ticks (24 hours by default, any duration through
\* NewRegistryWithTTL).
CacheTTL == 1

\* Plugin references, as tokens: org/name#version and the empty string.
OrgRef == <<"mcncl", "/", "foo", "#", "v3">>
EmptyRef == <<>>
PluginRefs == {OrgRef, EmptyRef}

\* The index of the first token tok in s, 0 when there is none.
IndexOf(s, tok) ==
    IF \E i \in 1..Len(s) : s[i] = tok
    THEN CHOOSE i \in 1..Len(s) : s[i] = tok /\ \A j \in 1..(i - 1) : s[j] # tok
    ELSE 0

\* ParsePluginReference: nil for "", else the version after the first "#" (or
\* "latest") and the org before the first "/" of what precedes it (or
\* "buildkite-plugins").
ParsePluginReference(ref) ==
    IF ref = <<>> THEN {}
    ELSE LET h == IndexOf(ref, "#")
             pluginPart == IF h = 0 THEN ref ELSE SubSeq(ref, 1, h - 1)
             version == IF h = 0 THEN <<"latest">> ELSE SubSeq(ref, h + 1, Len(ref))
             sl == IndexOf(pluginPart, "/")
         IN {[Org |-> IF sl = 0 THEN <<"buildkite-plugins">> ELSE SubSeq(pluginPart, 1, sl - 1),
              Name |-> IF sl = 0 THEN pluginPart ELSE SubSeq(pluginPart, sl + 1, Len(pluginPart)),
              Version |-> version,
              FullRef |-> ref]}

\* raw.githubusercontent.com/{org}/{name}-buildkite-plugin/{branch}/plugin.yml
SchemaURLOf(org, name, branch) == [org |-> org, name |-> name, branch |-> branch]
NoURL == SchemaURLOf(<<>>, <<>>, <<>>)

\* A slip: master is tried before main.
GetAllSchemaURLsMasterFirst(parsed) ==
    << SchemaURLOf(parsed.Org, parsed.Name, parsed.Version),
       SchemaURLOf(parsed.Org, parsed.Name, <<"master">>),
       SchemaURLOf(parsed.Org, parsed.Name, <<"main">>) >>

\* GetAllSchemaURLs
GetAllSchemaURLs(parsed) ==
    << SchemaURLOf(parsed.Org, parsed.Name, parsed.Version),
       SchemaURLOf(parsed.Org, parsed.Name, <<"main">>),
       SchemaURLOf(parsed.Org, parsed.Name, <<"master">>) >>

\* What a candidate URL can answer, one per exit of the loop body of
\* fetchPluginSchema: http.Get fails; a status other than 200; a body that cannot
\* be read; a body yaml.Unmarshal rejects; a decoded schema whose configuration
\* json.Marshal rejects; a decoded schema without configuration; a decoded schema
\* whose configuration serialises.
FetchOutcomes == {"transport_error", "non200", "read_error", "decode_error",
                  "marshal_error", "no_config", "ok"}

\* The answers with status 200 whose body yaml.Unmarshal decodes into PluginSchema.
DecodesIntoShape == {"marshal_error", "no_config", "ok"}

\* A slip: a schema whose configuration does not serialise is returned all the
\* same.
AcceptedUnserialised == {"marshal_error", "no_config", "ok"}

\* The answers fetchPluginSchema returns a schema for.
Accepted == {"no_config", "ok"}

\* The plugin.yml documents the candidates can serve.
SchemaBodies == {"plugin_a", "plugin_b"}

\* The *PluginSchema built from a body: SchemaData is set when there is a
\* configuration.
FetchedSchema(body, outcome) == [body |-> body, hasData |-> outcome = "ok"]
NoSchema == [body |-> "", hasData |-> FALSE]

NoRet == [kind |-> "none", schema |-> NoSchema, path |-> "none", tried |-> 0]

\* CachedPluginSchema.IsExpired with time.Now() = now, short of the mark: never.
IsExpiredNever(cached) == FALSE

\* CachedPluginSchema.IsExpired with time.Now() = now
IsExpired(cached) == now > cached.ExpiresAt

\* A slip: the entry expires the instant it is stored.
ExpiresAtNoTTL(t) == t

\* now.Add(r.cacheTTL)
ExpiresAt(t) == t + CacheTTL

\* exists && !cached.IsExpired()
CacheHit(ref) == ref \in DOMAIN plugins /\ ~IsExpired(plugins[ref])

\* A slip: the write lock is handed out while it is held.
RegCanLockAlways == TRUE

\* r.mu.Lock() can proceed.
RegCanLock == regLockers = {}

\* No caller is inside the registry.
RegIdle ==
    /\ regLockers = {}
    /\ rpc = [p \in Callers |-> "idle"]
    /\ rkey = [p \in Callers |-> EmptyRef]
    /\ rcand = [p \in Callers |-> 0]
    /\ rurl = [p \in Callers |-> NoURL]
    /\ rlastErr = [p \in Callers |-> "none"]
    /\ rresp = [p \in Callers |-> "none"]
    /\ rret = [p \in Callers |-> NoRet]

\* NewRegistry
RegInit ==
    /\ plugins = <<>>
    /\ now = 0
    /\ RegIdle

\* The clock advances.
Tick ==
    /\ now < MaxTime
    /\ now' = now + 1
    /\ UNCHANGED <<plugins, regLockers, rpc, rkey, rcand, rurl, rlastErr, rresp, rret>>
    /\ UNCHANGED regOthers

\* GetPluginSchema, the read-locked fast path: a present, unexpired entry is
\* returned; otherwise RUnlock and go on to Lock.
GetPluginSchemaFast(p, ref) ==
    /\ rpc[p] = "idle"
    /\ regLockers = {}
    /\ rkey' = [rkey EXCEPT ![p] = ref]
    /\ IF CacheHit(ref)
       THEN /\ rret' = [rret EXCEPT ![p] = [kind |-> "cached", schema |-> plugins[ref].Schema,
                                            path |-> "fast", tried |-> 0]]
            /\ rpc' = [rpc EXCEPT ![p] = "done"]
       ELSE /\ rret' = rret
            /\ rpc' = [rpc EXCEPT ![p] = "lock"]
    /\ UNCHANGED <<plugins, regLockers, now, rcand, rurl, rlastErr, rresp>>
    /\ UNCHANGED regOthers

\* r.mu.Lock()
GetPluginSchemaLock(p) ==
    /\ rpc[p] = "lock"
    /\ RegCanLock
    /\ regLockers' = regLockers \cup {p}
    /\ rpc' = [rpc EXCEPT ![p] = "locked"]
    /\ UNCHANGED <<plugins, now, rkey, rcand, rurl, rlastErr, rresp, rret>>
    /\ UNCHANGED regOthers

\* Under the write lock: the double check; then fetchPluginSchema parses the
\* reference and requests the first candidate URL.
GetPluginSchemaCheck(p) ==
    /\ rpc[p] = "locked"
    /\ IF CacheHit(rkey[p])
       THEN /\ rret' = [rret EXCEPT ![p] = [kind |-> "cached", schema |-> plugins[rkey[p]].Schema,
                                            path |-> "recheck", tried |-> 0]]
            /\ rpc' = [rpc EXCEPT ![p] = "done"]
            /\ regLockers' = regLockers \ {p}
            /\ UNCHANGED <<rcand, rurl>>
       ELSE IF ParsePluginReference(rkey[p]) = {}
       THEN /\ rret' = [rret EXCEPT ![p] = [kind |-> "error", schema |-> NoSchema,
                                            path |-> "invalid", tried |-> 0]]
            /\ rpc' = [rpc EXCEPT ![p] = "done"]
            /\ regLockers' = regLockers \ {p}
            /\ UNCHANGED <<rcand, rurl>>
       ELSE /\ rcand' = [rcand EXCEPT ![p] = 1]
            /\ rurl' = [rurl EXCEPT ![p] =
                    GetAllSchemaURLs(CHOOSE r \in ParsePluginReference(rkey[p]) : TRUE)[1]]
            /\ rpc' = [rpc EXCEPT ![p] = "inflight"]
            /\ UNCHANGED <<rret, regLockers>>
    /\ UNCHANGED <<plugins, now, rkey, rlastErr, rresp>>
    /\ UNCHANGED regOthers

\* The answer to the http.Get in flight.  An accepted answer ends the loop: the
\* schema is stored as {schema, now, now + TTL} and returned.  Any other answer
\* sets lastErr and continues with the next candidate; after the third the
\* composed error is returned and nothing is stored.  The deferred Unlock follows
\* either return.
FetchResponse(p, outcome, body) ==
    /\ rpc[p] = "inflight"
    /\ rresp' = [rresp EXCEPT ![p] = outcome]
    /\ IF outcome \in Accepted
       THEN /\ plugins' = (rkey[p] :> [Schema |-> FetchedSchema(body, outcome),
                                       CachedAt |-> now,
                                       ExpiresAt |-> ExpiresAt(now)]) @@ plugins
            /\ rret' = [rret EXCEPT ![p] = [kind |-> "fetched",
                                            schema |-> FetchedSchema(body, outcome),
                                            path |-> "fetch", tried |-> rcand[p]]]
            /\ rpc' = [rpc EXCEPT ![p] = "done"]
            /\ regLockers' = regLockers \ {p}
            /\ UNCHANGED <<rcand, rurl, rlastErr>>
       ELSE IF rcand[p] < 3
       THEN /\ rlastErr' = [rlastErr EXCEPT ![p] = outcome]
            /\ rcand' = [rcand EXCEPT ![p] = rcand[p] + 1]
            /\ rurl' = [rurl EXCEPT ![p] =
                    GetAllSchemaURLs(CHOOSE r \in ParsePluginReference(rkey[p]) : TRUE)[rcand[p] + 1]]
            /\ UNCHANGED <<plugins, rret, rpc, regLockers>>
       ELSE /\ rlastErr' = [rlastErr EXCEPT ![p] = outcome]
            /\ rret' = [rret EXCEPT ![p] = [kind |-> "error", schema |-> NoSchema,
                                            path |-> "fetch", tried |-> rcand[p]]]
            /\ rpc' = [rpc EXCEPT ![p] = "done"]
            /\ regLockers' = regLockers \ {p}
            /\ UNCHANGED <<plugins, rcand, rurl>>
    /\ UNCHANGED <<now, rkey>>
    /\ UNCHANGED regOthers

\* The caller takes the result of GetPluginSchema.
GetPluginSchemaReturn(p) ==
    /\ rpc[p] = "done"
    /\ rpc' = [rpc EXCEPT ![p] = "idle"]
    /\ rkey' = [rkey EXCEPT ![p] = EmptyRef]
    /\ rcand' = [rcand EXCEPT ![p] = 0]
    /\ rurl' = [rurl EXCEPT ![p] = NoURL]
    /\ rlastErr' = [rlastErr EXCEPT ![p] = "none"]
    /\ rresp' = [rresp EXCEPT ![p] = "none"]
    /\ rret' = [rret EXCEPT ![p] = NoRet]
    /\ UNCHANGED <<plugins, regLockers, now>>
    /\ UNCHANGED regOthers

\* InvalidateCache: Lock; delete(r.plugins, pluginName); Unlock.
InvalidateCache(ref) ==
    /\ RegCanLock
    /\ ref \in DOMAIN plugins
    /\ plugins' = MapDelete(plugins, ref)
    /\ UNCHANGED <<regLockers, now, rpc, rkey, rcand, rurl, rlastErr, rresp, rret>>
    /\ UNCHANGED regOthers

\* A slip: the sweep empties the cache.
SweptCacheEmpty == <<>>

\* for key, cached := range r.plugins { if cached.IsExpired() { delete(r.plugins, key) } }
SweptCache ==
    [ref \in {r \in DOMAIN plugins : ~IsExpired(plugins[r])} |-> plugins[ref]]

\* ClearExpiredCache: Lock; delete every expired entry; Unlock.
ClearExpiredCache ==
    /\ RegCanLock
    /\ \E ref \in DOMAIN plugins : IsExpired(plugins[ref])
    /\ plugins' = SweptCache
    /\ UNCHANGED <<regLockers, now, rpc, rkey, rcand, rurl, rlastErr, rresp, rret>>
    /\ UNCHANGED regOthers

\* GetCacheStats: RLock; total and expired; RUnlock.
GetCacheStats ==
    [total |-> Cardinality(DOMAIN plugins),
     expired |-> Cardinality({ref \in DOMAIN plugins : IsExpired(plugins[ref])})]

RegNext ==
    \/ Tick
    \/ \E p \in Callers, ref \in PluginRefs : GetPluginSchemaFast(p, ref)
    \/ \E p \in Callers :
          \/ GetPluginSchemaLock(p)
          \/ GetPluginSchemaCheck(p)
          \/ GetPluginSchemaReturn(p)
    \/ \E p \in Callers, outcome \in FetchOutcomes, body \in SchemaBodies :
          FetchResponse(p, outcome, body)
    \/ \E ref \in PluginRefs : InvalidateCache(ref)
    \/ ClearExpiredCache

----------------------------------------------------------------------------
(* lsp.Server: the handler of the connection.  main serves the connection  *)
(* with conn.Go(ctx, server.Handler()), which reads one message, runs the  *)
(* handler to its end and only then reads the next.                        *)

\* Most textDocument notifications in one run.
MaxMsgs == 2

\* The largest line number a request asks for.
MaxLine == 2

\* Directory names that end in ".buildkite".
DotBuildkiteDirs == {".buildkite", "my.buildkite"}

\* strings.TrimPrefix(uri, "file://")
FilePath(uri) == IF Len(uri) > 0 /\ uri[1] = "file://" THEN Tail(uri) ELSE uri

\* What follows the last "/" of a path.
RECURSIVE AfterLastSlash(_)
AfterLastSlash(path) ==
    IF path = <<>> THEN <<>>
    ELSE IF path[Len(path)] = "/" THEN <<>>
    ELSE Append(AfterLastSlash(SubSeq(path, 1, Len(path) - 1)), path[Len(path)])

\* A path without its trailing "/"s.
RECURSIVE StripSlashes(_)
StripSlashes(path) ==
    IF path # <<>> /\ path[Len(path)] = "/"
    THEN StripSlashes(SubSeq(path, 1, Len(path) - 1))
    ELSE path

\* filepath.Base: "." for the empty path; trailing separators are removed, and
\* what follows the last separator is returned, "/" if nothing is left.
BaseName(path) ==
    IF path = <<>> THEN <<".">>
    ELSE IF StripSlashes(path) = <<>> THEN <<"/">>
    ELSE AfterLastSlash(StripSlashes(path))

\* A slip: every file is taken for a Buildkite file.
isBuildkiteFileAlways(uri) == TRUE

\* isBuildkiteFile: a path containing ".buildkite/" that ends in .yml or .yaml,
\* or a file named pipeline.yml, pipeline.yaml, buildkite.yml or buildkite.yaml.
isBuildkiteFile(uri) ==
    LET filePath == FilePath(uri)
    IN  IF \E i \in 1..(Len(filePath) - 1) :
                filePath[i] \in DotBuildkiteDirs /\ filePath[i + 1] = "/"
        THEN Len(filePath) > 0 /\ filePath[Len(filePath)] \in {".yml", ".yaml"}
        ELSE BaseName(filePath) \in {<<"pipeline", ".yml">>, <<"pipeline", ".yaml">>,
                                     <<"buildkite", ".yml">>, <<"buildkite", ".yaml">>}

\* The texts the client sends: a pipeline without findings, one the YAML parser
\* rejects, one the pipeline schema rejects, and one whose only step has plugins.
TextClean == <<"steps:", LF, "  - command: ok">>
TextBadYAML == <<"steps: [">>
TextInvalid == <<"steps:", LF, "  - bogus: 1">>
TextPlugin == <<"steps:", LF, "  - plugins:", LF, "      - mcncl/foo#v3: {}">>
SrvTexts == {TextClean, TextBadYAML, TextInvalid, TextPlugin}

\* The texts sent for a URI.
TextsFor(uri) == IF isBuildkiteFile(uri) THEN SrvTexts ELSE {TextClean}

\* params.ContentChanges of a didChange: none, one, or several full texts.
ChangeLists(uri) ==
    IF isBuildkiteFile(uri)
    THEN {<<>>, <<TextClean>>, <<TextBadYAML, TextPlugin>>, <<TextPlugin, TextInvalid>>,
          <<TextInvalid, TextClean>>, <<TextClean, TextBadYAML>>}
    ELSE {<<>>, <<TextClean>>}

\* parser.ParseYAML returns an error.
ParseYAMLFails(text) == text = TextBadYAML

\* The schema validation of the pipeline returns a ValidationError.
SchemaViolation(text) == text = TextInvalid

\* strings.Split(s, "\n"): the pieces between the line feeds, the last one too.
RECURSIVE StringsSplit(_, _)
StringsSplit(s, current) ==
    IF s = <<>> THEN <<current>>
    ELSE IF s[1] = LF THEN <<current>> \o StringsSplit(Tail(s), <<>>)
    ELSE StringsSplit(Tail(s), Append(current, s[1]))

\* invalidPatterns
invalidPatterns == <<"invalid_field", "unknown_property", "bad_field">>

\* for i, line := range lines { if strings.Contains(line, substr) { return i + 1 } }
\* and 0 where the loop ends without a return.
FirstLineWith(lines, substr) ==
    LET at == {i \in 1..Len(lines) : Contains(lines[i], substr)}
    IN  IF at = {} THEN 0 ELSE CHOOSE i \in at : \A j \in at : i <= j

\* The loop over invalidPatterns, from pattern i on.
RECURSIVE PatternLine(_, _)
PatternLine(lines, i) ==
    IF i > Len(invalidPatterns) THEN 0
    ELSE IF FirstLineWith(lines, <<invalidPatterns[i]>>) # 0
    THEN FirstLineWith(lines, <<invalidPatterns[i]>>)
    ELSE PatternLine(lines, i + 1)

\* Pipeline.GetLineForError: the line counted from 1.
GetLineForError(content, errorMsg) ==
    LET lines == StringsSplit(content, <<>>)
        trimmedLines == [i \in 1..Len(lines) |-> TrimSpace(lines[i])]
    IN  IF PatternLine(lines, 1) # 0 THEN PatternLine(lines, 1)
        ELSE IF Contains(errorMsg, <<"evaluation failed">>)
                /\ FirstLineWith(trimmedLines, <<"invalid_field", ":">>) # 0
        THEN FirstLineWith(trimmedLines, <<"invalid_field", ":">>)
        ELSE 1

\* validationErr.Message for the text the schema rejects.
SchemaMessage == <<"Unknown property '", "bogus", "' is not allowed">>

\* uint32(pipeline.GetLineForError(validationErr.Message) - 1)
SchemaErrorLine(text) == GetLineForError(text, SchemaMessage) - 1

\* plugins.ParsePluginFromStep over the steps of the pipeline, with the line of
\* each step.
PluginsOfText(text) == IF text = TextPlugin THEN {[Name |-> OrgRef, line |-> 1]} ELSE {}

\* A diagnostic.  text is history: the text it is a finding of.
Diagnostic(text, line, severity, source, code, kind) ==
    [text |-> text, line |-> line, severity |-> severity, source |-> source,
     code |-> code, kind |-> kind]

\* validatePipelineStructure and validateSteps: the findings read off the text.
StaticFindings(text) ==
    IF text = TextPlugin
    THEN {Diagnostic(text, 1, "information", "buildkite-ls", "no-step-type-with-plugins", "step")}
    ELSE IF text = TextInvalid
    THEN {Diagnostic(text, 1, "error", "buildkite-ls", "missing-step-type", "step")}
    ELSE {}

\* gojsonschema's verdict on the plugin's configuration in the text against the
\* schema of the plugin: plugin_b requires a property the configuration lacks.
ConfigFails(text, schema) == schema.hasData /\ schema.body = "plugin_b"

\* What the handler is doing.
NoMsg == [method |-> "none", uri |-> <<>>, text |-> <<>>, line |-> 0]

\* The last textDocument/publishDiagnostics sent for a URI.  text is history: the
\* content validateDocument was called with.
NoPublish == [sent |-> FALSE, text |-> <<>>, diags |-> {}]

NoResponse == [method |-> "none", uri |-> <<>>, inCase |-> FALSE, kind |-> "none"]

\* NewServer; main sets the connection before it serves it.
SrvInit ==
    /\ spc = "idle"
    /\ smsg = NoMsg
    /\ lastText = [u \in URIs |-> {}]
    /\ pub = [u \in URIs |-> NoPublish]
    /\ fres = NoResponse
    /\ handled = 0
    /\ net = "none"

srvFrame == <<dpc, dargs, held, obs, lastWrite,
              ldWriter, lpc, lret,
              regLockers, rpc, rkey, rcand, rurl, rlastErr, rresp, rret, arg, res>>

\* A slip: the method returns with dm.mu still held.
UnlockMissing(w, p) == w

\* defer dm.mu.Unlock(): the method returns without the write lock.
Unlock(w, p) == IF w = p THEN Nil ELSE w

\* defer dm.mu.RUnlock(): the method returns without the read lock.
RUnlock(readers, p) == readers \ {p}

\* DidOpen: documentManager.OpenDocument stores the document under dm.mu; then
\* validateDocument with the text.
DidOpen(uri, version, text) ==
    /\ spc = "idle"
    /\ handled < MaxMsgs
    /\ handled' = handled + 1
    /\ CanLock
    /\ dmWriter' = "srv"
    /\ documents' = (uri :> NewDocument(uri, version, text)) @@ documents
    /\ lastText' = [lastText EXCEPT ![uri] = {text}]
    /\ smsg' = [method |-> "didOpen", uri |-> uri, text |-> text, line |-> 0]
    /\ spc' = "stored"
    /\ fres' = NoResponse
    /\ UNCHANGED <<dmReaders, net, pub, schemaData, schemaRequests, ldCalls, plugins, now>>
    /\ UNCHANGED srvFrame

\* A slip: the first content change is taken.
FirstChange(changes) == changes[1]

\* lastChange := params.ContentChanges[len(params.ContentChanges)-1]
LastChange(changes) == changes[Len(changes)]

\* UpdateDocument's writes: the document is updated in place or created.
UpdatedDocuments(uri, version, content) ==
    IF uri \in DOMAIN documents
    THEN [documents EXCEPT ![uri] =
            [URI |-> documents[uri].URI, Version |-> version, Content |-> content,
             Lines |-> UpdatedLines(documents[uri], content)]]
    ELSE (uri :> NewDocument(uri, version, content)) @@ documents

\* DidChange: without content changes nothing is done; otherwise UpdateDocument
\* with the last change's text under dm.mu, then validateDocument with that text.
DidChange(uri, version, changes) ==
    /\ spc = "idle"
    /\ handled < MaxMsgs
    /\ handled' = handled + 1
    /\ fres' = NoResponse
    /\ IF Len(changes) > 0
       THEN /\ CanLock
            /\ dmWriter' = "srv"
            /\ documents' = UpdatedDocuments(uri, version, LastChange(changes))
            /\ lastText' = [lastText EXCEPT ![uri] = {changes[Len(changes)]}]
            /\ smsg' = [method |-> "didChange", uri |-> uri,
                        text |-> LastChange(changes), line |-> 0]
            /\ spc' = "stored"
       ELSE UNCHANGED <<dmWriter, documents, lastText, smsg, spc>>
    /\ UNCHANGED <<dmReaders, net, pub, schemaData, schemaRequests, ldCalls, plugins, now>>
    /\ UNCHANGED srvFrame

\* DidClose: documentManager.CloseDocument deletes the entry under dm.mu.
DidClose(uri) ==
    /\ spc = "idle"
    /\ handled < MaxMsgs
    /\ handled' = handled + 1
    /\ CanLock
    /\ dmWriter' = "srv"
    /\ documents' = MapDelete(documents, uri)
    /\ smsg' = [method |-> "didClose", uri |-> uri, text |-> <<>>, line |-> 0]
    /\ spc' = "stored"
    /\ fres' = NoResponse
    /\ UNCHANGED <<dmReaders, net, lastText, pub, schemaData, schemaRequests,
                   ldCalls, plugins, now>>
    /\ UNCHANGED srvFrame

\* OpenDocument, UpdateDocument or CloseDocument returns: the deferred Unlock
\* runs; DidOpen and DidChange go on to validateDocument, DidClose is done.
StoreReturn ==
    /\ spc = "stored"
    /\ dmWriter' = Unlock(dmWriter, "srv")
    /\ IF smsg.method = "didClose"
       THEN spc' = "idle" /\ smsg' = NoMsg
       ELSE spc' = "validate" /\ smsg' = smsg
    /\ UNCHANGED <<documents, dmReaders, net, lastText, pub, fres, handled, schemaData,
                   schemaRequests, ldCalls, plugins, now>>
    /\ UNCHANGED srvFrame

\* A slip: the new diagnostics are added to those published before.
PublishedAdding(old, text, diags) == [sent |-> TRUE, text |-> text, diags |-> old.diags \cup diags]

\* sendDiagnostics: the notification carries the given list and nothing else.
Published(old, text, diags) == [sent |-> TRUE, text |-> text, diags |-> diags]

\* sendDiagnostics: s.conn is set, so conn.Notify sends publishDiagnostics for
\* the URI.
SendDiagnostics(uri, text, diags) ==
    pub' = [pub EXCEPT ![uri] = Published(pub[uri], text, diags)]

\* GetPluginSchema and ValidatePluginConfig for one plugin of the text, run to
\* the end: got is the entry served or stored, or empty when the fetch failed.
PluginDiagnostics(text, ref, got) ==
    IF got = {} \/ (\E e \in got : ConfigFails(text, e.Schema))
    THEN {Diagnostic(text, ref.line, "error", "buildkite-ls", "plugin-config-error", "plugin")}
    ELSE {}

\* A slip: the findings of the later stages are sent along.
FailedStageWithFindings(text, diag) == {diag} \cup StaticFindings(text)

\* The list a failing stage passes to sendDiagnostics before validateDocument
\* returns: a literal with one element.
FailedStage(text, diag) == {diag}

\* validateDocument for a file that is not a Buildkite file: it returns at once.
ValidateOther ==
    /\ spc = "validate"
    /\ ~isBuildkiteFile(smsg.uri)
    /\ spc' = "idle"
    /\ smsg' = NoMsg
    /\ UNCHANGED <<documents, dmWriter, dmReaders, net, lastText, pub, fres, handled,
                   schemaData, schemaRequests, ldCalls, plugins, now>>
    /\ UNCHANGED srvFrame

\* validateDocument, the YAML parser rejects the text: one error diagnostic.
ValidateParseError ==
    /\ spc = "validate"
    /\ isBuildkiteFile(smsg.uri)
    /\ ParseYAMLFails(smsg.text)
    /\ SendDiagnostics(smsg.uri, smsg.text,
            FailedStage(smsg.text, Diagnostic(smsg.text, 0, "error", "", "", "yaml")))
    /\ spc' = "idle"
    /\ smsg' = NoMsg
    /\ UNCHANGED <<documents, dmWriter, dmReaders, net, lastText, fres, handled,
                   schemaData, schemaRequests, ldCalls, plugins, now>>
    /\ UNCHANGED srvFrame

\* validateDocument, ValidateJSON, GetSchemaData without a stored schema:
\* http.Get(SchemaURL) is sent.
ValidateSchemaRequest ==
    /\ spc = "validate"
    /\ isBuildkiteFile(smsg.uri)
    /\ ~ParseYAMLFails(smsg.text)
    /\ schemaData = Nil
    /\ ldCalls' = ldCalls + 1
    /\ schemaRequests' = schemaRequests + 1
    /\ net' = "schema"
    /\ spc' = "loading"
    /\ UNCHANGED <<documents, dmWriter, dmReaders, smsg, lastText, pub, fres, handled,
                   schemaData, plugins, now>>
    /\ UNCHANGED srvFrame

\* validateDocument, ValidateJSON: GetSchemaData serves the stored schema, or the
\* request is answered; a failed request gives one error diagnostic, a violation
\* of the schema one error diagnostic on its line.  Otherwise validatePlugins
\* follows.
ValidateSchema(outcome) ==
    /\ \/ spc = "loading"
       \/ /\ spc = "validate"
          /\ isBuildkiteFile(smsg.uri)
          /\ ~ParseYAMLFails(smsg.text)
          /\ schemaData # Nil
    /\ ldCalls' = IF spc = "validate" THEN ldCalls + 1 ELSE ldCalls
    /\ schemaData' = IF spc = "loading" /\ outcome = "ok" THEN SchemaBody ELSE schemaData
    /\ net' = "none"
    /\ IF schemaData' = Nil
       THEN /\ SendDiagnostics(smsg.uri, smsg.text,
                    FailedStage(smsg.text,
                        Diagnostic(smsg.text, 0, "error", "", "", "schema-load")))
            /\ spc' = "idle"
            /\ smsg' = NoMsg
       ELSE IF SchemaViolation(smsg.text)
       THEN /\ SendDiagnostics(smsg.uri, smsg.text,
                    FailedStage(smsg.text,
                        Diagnostic(smsg.text, SchemaErrorLine(smsg.text), "error", "",
                                   "", "schema")))
            /\ spc' = "idle"
            /\ smsg' = NoMsg
       ELSE /\ spc' = "plugins"
            /\ UNCHANGED <<pub, smsg>>
    /\ UNCHANGED <<documents, dmWriter, dmReaders, lastText, fres, handled,
                   schemaRequests, plugins, now>>
    /\ UNCHANGED srvFrame

\* The plugins of the text whose schema GetPluginSchema has to fetch: no
\* unexpired entry, and a reference that parses.
PluginsToFetch(text) ==
    {r.Name : r \in {x \in PluginsOfText(text) :
                        ~CacheHit(x.Name) /\ ParsePluginReference(x.Name) # {}}}

\* validatePlugins, ValidatePluginConfig, GetPluginSchema without an unexpired
\* entry: fetchPluginSchema sends its request.
ValidatePluginsRequest ==
    /\ spc = "plugins"
    /\ PluginsToFetch(smsg.text) # {}
    /\ net' = "plugin"
    /\ spc' = "fetching"
    /\ UNCHANGED <<documents, dmWriter, dmReaders, smsg, lastText, pub, fres, handled,
                   schemaData, schemaRequests, ldCalls, plugins, now>>
    /\ UNCHANGED srvFrame

\* validatePlugins and the final sendDiagnostics: the findings read off the text,
\* and for each plugin of the text ValidatePluginConfig, which serves an unexpired
\* entry of the registry or takes the answer of the fetch (outcome, body) and
\* stores it.
ValidatePlugins(outcome, body) ==
    /\ \/ spc = "fetching"
       \/ spc = "plugins" /\ PluginsToFetch(smsg.text) = {}
    /\ net' = "none"
    /\ LET refs == PluginsOfText(smsg.text)
           fetched == [Schema |-> FetchedSchema(body, outcome), CachedAt |-> now,
                       ExpiresAt |-> ExpiresAt(now)]
           toFetch == PluginsToFetch(smsg.text)
           Got(ref) == IF CacheHit(ref.Name) THEN {plugins[ref.Name]}
                       ELSE IF ref.Name \in toFetch /\ outcome \in Accepted THEN {fetched}
                       ELSE {}
       IN  /\ plugins' = IF outcome \in Accepted
                         THEN [k \in DOMAIN plugins \cup toFetch |->
                                 IF k \in toFetch THEN fetched ELSE plugins[k]]
                         ELSE plugins
           /\ SendDiagnostics(smsg.uri, smsg.text,
                  StaticFindings(smsg.text) \cup
                  UNION {PluginDiagnostics(smsg.text, ref, Got(ref)) : ref \in refs})
    /\ spc' = "idle"
    /\ smsg' = NoMsg
    /\ UNCHANGED <<documents, dmWriter, dmReaders, lastText, fres, handled, schemaData,
                   schemaRequests, ldCalls, now>>
    /\ UNCHANGED srvFrame

\* The clock advances while the server runs.
SrvTick ==
    /\ now < MaxTime
    /\ now' = now + 1
    /\ UNCHANGED <<documents, dmWriter, dmReaders, net, spc, smsg, lastText, pub, fres,
                   handled, schemaData, schemaRequests, ldCalls, plugins>>
    /\ UNCHANGED srvFrame

\* The requests the handler serves from the document store.
Features == {"hover", "completion", "signatureHelp", "definition", "documentSymbol",
             "codeAction", "semanticTokens/full", "semanticTokens/range"}

\* The requests that carry a position or a range.
Positioned == Features \ {"documentSymbol", "semanticTokens/full"}

\* The requests whose answer may need the schema of a plugin: getPluginHoverContent,
\* getPluginSignatures, getPluginConfigCompletions.
PluginFeatures == {"hover", "signatureHelp", "completion"}

\* GetContentAtPosition returns nil, nil: no document, or lineIndex >= len(doc.Lines).
PositionContextNil(uri, line) ==
    uri \notin DOMAIN documents \/ line >= Len(documents[uri].Lines)

\* The plugin the position of the request is in.
PluginAtPosition(uri, line) ==
    IF ~PositionContextNil(uri, line) /\ documents[uri].Content = TextPlugin /\ line = 2
    THEN {OrgRef}
    ELSE {}

\* The kinds of answer a handler gives.
AnswerKinds == {"absent", "empty", "value", "error", "panic"}

\* A slip: the handlers answer without the test for a Buildkite file.
FeatureOutcomesUnchecked(method, uri, line) ==
    IF PositionContextNil(uri, line) THEN {"absent"} ELSE {"absent", "value"}

\* What each handler answers: "absent" is a nil result, "empty" an empty list or
\* token array, "value" anything else, "error" an error response, "panic" a nil
\* pointer dereference, which nothing recovers.
FeatureOutcomes(method, uri, line) ==
    IF method = "hover" THEN
        IF ~isBuildkiteFile(uri) \/ PositionContextNil(uri, line) THEN {"absent"}
        ELSE {"absent", "value"}
    ELSE IF method = "completion" THEN
        IF ~isBuildkiteFile(uri) THEN {"empty"}
        ELSE IF PositionContextNil(uri, line) THEN {"panic"}
        ELSE {"empty", "value"}
    ELSE IF method = "signatureHelp" THEN
        IF ~isBuildkiteFile(uri) THEN {"absent"}
        ELSE IF PositionContextNil(uri, line) THEN {"panic"}
        ELSE {"absent", "value"}
    ELSE IF method = "definition" THEN
        IF ~isBuildkiteFile(uri) THEN {"absent"}
        ELSE IF PositionContextNil(uri, line) THEN {"panic"}
        ELSE {"absent", "value"}
    ELSE IF method = "documentSymbol" THEN
        IF ~isBuildkiteFile(uri) THEN {"absent"}
        ELSE IF uri \notin DOMAIN documents THEN {"error"}
        ELSE {"absent", "value"}
    ELSE IF method = "codeAction" THEN
        IF ~isBuildkiteFile(uri) \/ uri \notin DOMAIN documents THEN {"absent"}
        ELSE IF line >= Len(documents[uri].Lines) THEN {"absent"}
        ELSE {"absent", "value"}
    ELSE IF method = "semanticTokens/full" THEN
        IF ~isBuildkiteFile(uri) \/ uri \notin DOMAIN documents THEN {"empty"}
        ELSE {"empty", "value"}
    ELSE
        IF ~isBuildkiteFile(uri) \/ uri \notin DOMAIN documents THEN {"empty"}
        ELSE IF line >= Len(documents[uri].Lines) THEN {"empty"}
        ELSE {"empty", "value"}

\* The answer to a feature request.  inCase is history: the request is for a
\* Buildkite URI without an open document, or for a line beyond its end.
Response(method, uri, line, kind) ==
    [method |-> method, uri |-> uri,
     inCase |-> /\ isBuildkiteFile(uri)
                /\ \/ uri \notin DOMAIN documents
                   \/ method \in Positioned /\ line >= Len(documents[uri].Lines),
     kind |-> kind]

\* A feature request for a file that is not a Buildkite file: the handler
\* answers before it looks at the document store.
FeatureOther(method, uri, kind) ==
    /\ spc = "idle"
    /\ ~isBuildkiteFile(uri)
    /\ kind \in FeatureOutcomes(method, uri, 0)
    /\ fres' = Response(method, uri, 0, kind)
    /\ UNCHANGED <<documents, dmWriter, dmReaders, net, spc, smsg, lastText, pub, handled,
                   schemaData, schemaRequests, ldCalls, plugins, now>>
    /\ UNCHANGED srvFrame

\* A feature request for a Buildkite file: GetContentAtPosition or GetDocument
\* reads the store under dm.mu.RLock.
FeatureRequest(method, uri, line) ==
    /\ spc = "idle"
    /\ isBuildkiteFile(uri)
    /\ CanRLock
    /\ dmReaders' = dmReaders \cup {"srv"}
    /\ smsg' = [method |-> method, uri |-> uri, text |-> <<>>, line |-> line]
    /\ spc' = "lookup"
    /\ fres' = NoResponse
    /\ UNCHANGED <<documents, dmWriter, net, lastText, pub, handled,
                   schemaData, schemaRequests, ldCalls, plugins, now>>
    /\ UNCHANGED srvFrame

\* GetContentAtPosition or GetDocument returns: the deferred RUnlock runs.
FeatureLookupReturn ==
    /\ spc = "lookup"
    /\ dmReaders' = RUnlock(dmReaders, "srv")
    /\ spc' = "answer"
    /\ UNCHANGED <<documents, dmWriter, net, smsg, lastText, pub, fres, handled,
                   schemaData, schemaRequests, ldCalls, plugins, now>>
    /\ UNCHANGED srvFrame

\* Hover, SignatureHelp or Completion at a plugin: GetPluginSchema without an
\* unexpired entry sends the request of fetchPluginSchema.
FeatureFetchRequest ==
    /\ spc = "answer"
    /\ smsg.method \in PluginFeatures
    /\ \E ref \in PluginAtPosition(smsg.uri, smsg.line) : ~CacheHit(ref)
    /\ net' = "plugin"
    /\ spc' = "featureFetch"
    /\ UNCHANGED <<documents, dmWriter, dmReaders, smsg, lastText, pub, fres, handled,
                   schemaData, schemaRequests, ldCalls, plugins, now>>
    /\ UNCHANGED srvFrame

\* The fetch for the feature request is answered; an accepted schema is stored.
FeatureFetchResponse(outcome, body) ==
    /\ spc = "featureFetch"
    /\ net' = "none"
    /\ spc' = "fetched"
    /\ plugins' = IF outcome \in Accepted
                  THEN [k \in DOMAIN plugins \cup PluginAtPosition(smsg.uri, smsg.line) |->
                          IF k \in PluginAtPosition(smsg.uri, smsg.line)
                          THEN [Schema |-> FetchedSchema(body, outcome), CachedAt |-> now,
                                ExpiresAt |-> ExpiresAt(now)]
                          ELSE plugins[k]]
                  ELSE plugins
    /\ UNCHANGED <<documents, dmWriter, dmReaders, smsg, lastText, pub, fres, handled,
                   schemaData, schemaRequests, ldCalls, now>>
    /\ UNCHANGED srvFrame

\* The handler answers the feature request, or dereferences a nil pointer.
FeatureAnswer(kind) ==
    /\ spc \in {"answer", "fetched"}
    /\ kind \in FeatureOutcomes(smsg.method, smsg.uri, smsg.line)
    /\ fres' = Response(smsg.method, smsg.uri, smsg.line, kind)
    /\ spc' = IF kind = "panic" THEN "crashed" ELSE "idle"
    /\ smsg' = NoMsg
    /\ UNCHANGED <<documents, dmWriter, dmReaders, net, lastText, pub, handled,
                   schemaData, schemaRequests, ldCalls, plugins, now>>
    /\ UNCHANGED srvFrame

SrvNext ==
    \/ \E uri \in URIs : \E text \in TextsFor(uri) : DidOpen(uri, 1, text)
    \/ \E uri \in URIs : \E changes \in ChangeLists(uri) : DidChange(uri, 2, changes)
    \/ \E uri \in URIs : DidClose(uri)
    \/ StoreReturn
    \/ ValidateOther
    \/ ValidateParseError
    \/ ValidateSchemaRequest
    \/ \E outcome \in LoaderOutcomes : ValidateSchema(outcome)
    \/ ValidatePluginsRequest
    \/ \E outcome \in FetchOutcomes, body \in SchemaBodies : ValidatePlugins(outcome, body)
    \/ SrvTick
    \/ \E method \in Features, uri \in URIs, kind \in AnswerKinds :
          FeatureOther(method, uri, kind)
    \/ \E method \in Features, uri \in URIs, line \in 0..MaxLine :
          FeatureRequest(method, uri, line)
    \/ FeatureLookupReturn
    \/ FeatureFetchRequest
    \/ \E outcome \in FetchOutcomes, body \in SchemaBodies : FeatureFetchResponse(outcome, body)
    \/ \E kind \in AnswerKinds : FeatureAnswer(kind)

----------------------------------------------------------------------------
(* Functions checked on their own: the input is drawn when the run starts  *)
(* and the function is applied to it once.                                 *)

\* Nothing is being applied.
FunInit == arg = <<>> /\ res = {}

\* The rest of the program as constructed.
Constructed == DocInit /\ LoaderInit /\ RegInit /\ SrvInit

\* The URIs isBuildkiteFile is applied to: with and without the file scheme,
\* absolute and relative, in no directory, in a directory named .buildkite, in
\* one whose name ends in .buildkite, below a .buildkite directory, with and
\* without a trailing separator.
ClassifyURIs ==
    {scheme \o root \o dir \o <<stem, ext>> \o trail :
        scheme \in {<<>>, <<"file://">>},
        root \in {<<>>, <<"/">>},
        dir \in {<<>>, <<"p", "/">>, <<".buildkite", "/">>, <<"my.buildkite", "/">>,
                 <<"p", "/", ".buildkite", "/", "sub", "/">>},
        stem \in {"pipeline", "buildkite", "steps"},
        ext \in {".yml", ".yaml", ".json"},
        trail \in {<<>>, <<"/">>}}

ClassifyInit == Constructed /\ arg \in ClassifyURIs /\ res = {}

\* s.isBuildkiteFile(uri)
Classify ==
    /\ res = {}
    /\ res' = {isBuildkiteFile(arg)}
    /\ UNCHANGED arg
    /\ UNCHANGED funOthers

ClassifyNext == Classify

\* The largest line and character a position asks for.
MaxCtxLine == 3
MaxCtxChar == 2

\* Texts of no, one, two and three lines.
ContextTexts == {<<>>, <<"a">>, <<"a", LF, "b", "b">>, <<"a", LF, LF, "b">>}

\* dm.documents: empty, or one document opened with one of the texts.
ContextStores ==
    {<<>>} \cup {(u :> NewDocument(u, 1, c)) : u \in URIs, c \in ContextTexts}

\* A slip: the loop stops before the line of the position.
RECURSIVE ContextLinesBefore(_, _, _, _)
ContextLinesBefore(lines, lineIndex, i, contextLines) ==
    IF i < Len(lines) /\ i < lineIndex
    THEN ContextLinesBefore(lines, lineIndex, i + 1, Append(contextLines, lines[i + 1]))
    ELSE contextLines

\* for i := 0; i < len(doc.Lines) && i <= lineIndex; i++ { append(contextLines,
\* doc.Lines[i]) }; the index i counts from 0.
RECURSIVE ContextLinesLoop(_, _, _, _)
ContextLinesLoop(lines, lineIndex, i, contextLines) ==
    IF i < Len(lines) /\ i <= lineIndex
    THEN ContextLinesLoop(lines, lineIndex, i + 1, Append(contextLines, lines[i + 1]))
    ELSE contextLines

\* GetContentAtPosition: the empty set is the nil *PositionContext.
GetContentAtPosition(docs, uri, position) ==
    IF uri \notin DOMAIN docs THEN {}
    ELSE LET doc == docs[uri]
             lineIndex == position.Line
             charIndex == position.Character
         IN  IF lineIndex >= Len(doc.Lines) THEN {}
             ELSE {[URI |-> uri, Position |-> position,
                    CurrentLine |-> doc.Lines[lineIndex + 1],
                    CharIndex |-> charIndex,
                    ContextLines |-> ContextLinesLoop(doc.Lines, lineIndex, 0, <<>>),
                    FullContent |-> doc.Content]}

ContextInit ==
    /\ Constructed
    /\ arg \in [docs : ContextStores, uri : URIs,
                 position : [Line : 0..MaxCtxLine, Character : 0..MaxCtxChar]]
    /\ res = {}

\* dm.GetContentAtPosition(uri, position)
ContextAt ==
    /\ res = {}
    /\ res' = {GetContentAtPosition(arg.docs, arg.uri, arg.position)}
    /\ UNCHANGED arg
    /\ UNCHANGED funOthers

ContextNext == ContextAt

\* The longest text splitLines is applied to.
MaxTextLen == 4

\* The texts of at most n characters out of two letters, the line feed and the
\* carriage return.
RECURSIVE TextsUpTo(_)
TextsUpTo(n) ==
    IF n = 0 THEN {<<>>}
    ELSE TextsUpTo(n - 1) \cup
         {Append(t, c) : t \in {x \in TextsUpTo(n - 1) : Len(x) = n - 1},
                         c \in {"a", "b", LF, CR}}

SplitInit == Constructed /\ arg \in TextsUpTo(MaxTextLen) /\ res = {}

\* splitLines(content)
Split ==
    /\ res = {}
    /\ res' = {splitLines(arg)}
    /\ UNCHANGED arg
    /\ UNCHANGED funOthers

SplitNext == Split

----------------------------------------------------------------------------
(* context.Analyzer.  A line is a sequence of characters in which a word   *)
(* (a key, a value) stands as one element.                                 *)

\* Most context lines of an analyzed position.
MaxAnalyzeLines == 3

\* getIndentLevel: a space counts 1 and a tab 2, up to the first other character.
RECURSIVE getIndentLevel(_)
getIndentLevel(line) ==
    IF line = <<>> THEN 0
    ELSE IF line[1] = " " THEN 1 + getIndentLevel(Tail(line))
    ELSE IF line[1] = "\t" THEN 2 + getIndentLevel(Tail(line))
    ELSE 0

\* popKeysAtOrAboveIndent: the keys of the stack with a smaller indent, in order.
RECURSIVE popKeysAtOrAboveIndent(_, _)
popKeysAtOrAboveIndent(keyStack, indent) ==
    IF keyStack = <<>> THEN <<>>
    ELSE IF keyStack[1].IndentLevel < indent
    THEN <<keyStack[1]>> \o popKeysAtOrAboveIndent(Tail(keyStack), indent)
    ELSE popKeysAtOrAboveIndent(Tail(keyStack), indent)

\* The KeyInfo literal of parseKeyFromLine.
KeyInfo(key, indent, afterColon) ==
    [Key |-> key, IndentLevel |-> indent,
     IsArray |-> afterColon = <<>> \/ afterColon = <<"[]">>,
     HasValue |-> afterColon # <<>> /\ afterColon # <<"[]">>]

\* The key and what follows the first colon of content, if it has a colon.
KeyOfContent(content, indent) ==
    LET colonIndex == IndexOf(content, ":")
    IN  IF colonIndex # 0
        THEN {KeyInfo(TrimSpace(SubSeq(content, 1, colonIndex - 1)), indent,
                      TrimSpace(SubSeq(content, colonIndex + 1, Len(content))))}
        ELSE {}

\* parseKeyFromLine: the empty set is nil.
parseKeyFromLine(line, indent) ==
    LET trimmed == TrimSpace(line)
    IN  IF HasPrefix(trimmed, <<"-", " ">>)
        THEN KeyOfContent(TrimSpace(SubSeq(trimmed, 3, Len(trimmed))), indent)
        ELSE KeyOfContent(trimmed, indent)

\* &ContextInfo{Type: ContextUnknown}
UnknownContext ==
    [Type |-> "Unknown", IndentLevel |-> 0, InArray |-> FALSE, ArrayContext |-> "",
     ParentKeys |-> <<>>, PluginName |-> <<>>, NearestStepIndex |-> 0]

\* determineContextFromStack, the loop from the top of the stack down (i counts
\* from Len(keyStack) to 1) and what follows it.
RECURSIVE ScanStack(_, _, _)
ScanStack(context, keyStack, i) ==
    IF i < 1
    THEN IF Len(keyStack) <= 1
         THEN [context EXCEPT !.Type = "TopLevel"]
         ELSE [context EXCEPT !.Type = "Step"]
    ELSE IF keyStack[i].Key = <<"plugins">>
    THEN IF i < Len(keyStack)
         THEN [context EXCEPT !.Type = "PluginConfig", !.InArray = TRUE,
                              !.ArrayContext = "plugins",
                              !.PluginName = keyStack[i + 1].Key]
         ELSE [context EXCEPT !.Type = "Plugins", !.InArray = TRUE,
                              !.ArrayContext = "plugins"]
    ELSE IF keyStack[i].Key = <<"steps">>
    THEN [context EXCEPT !.Type = "Step"]
    ELSE ScanStack(context, keyStack, i - 1)

\* determineContextFromStack
determineContextFromStack(context, keyStack) ==
    LET withKeys == [context EXCEPT
                        !.ParentKeys = [j \in 1..Len(keyStack) |-> keyStack[j].Key]]
    IN  IF Len(keyStack) = 0
        THEN [withKeys EXCEPT !.Type = "TopLevel"]
        ELSE ScanStack(withKeys, keyStack, Len(keyStack))

\* analyzeYAMLStructure, the loop over the lines from line i on.
\* A slip: only the empty lines are skipped, the comments are not.
SkippedLineEmptyOnly(trimmed) == trimmed = <<>>

\* trimmed == "" || strings.HasPrefix(trimmed, "#")
SkippedLine(trimmed) == trimmed = <<>> \/ HasPrefix(trimmed, <<"#">>)

RECURSIVE AnalyzeLoop(_, _, _, _)
AnalyzeLoop(lines, i, keyStack, context) ==
    IF i > Len(lines) THEN context
    ELSE
      LET line == lines[i]
          isCurrentLine == i = Len(lines)
          trimmed == TrimSpace(line)
      IN  IF SkippedLine(trimmed) /\ ~isCurrentLine
          THEN AnalyzeLoop(lines, i + 1, keyStack, context)
          ELSE
            LET indent == getIndentLevel(line)
                popped == popKeysAtOrAboveIndent(keyStack, indent)
                keyInfo == IF isCurrentLine THEN {} ELSE parseKeyFromLine(line, indent)
                pushed == IF keyInfo = {} THEN popped
                          ELSE Append(popped, CHOOSE k \in keyInfo : TRUE)
                recorded ==
                    IF isCurrentLine THEN [context EXCEPT !.IndentLevel = indent]
                    ELSE IF \E k \in keyInfo : k.Key = <<"steps">> /\ k.IsArray
                    THEN [context EXCEPT !.NearestStepIndex = 0]
                    ELSE context
                counted ==
                    IF /\ Contains(trimmed, <<"-", " ">>)
                       /\ Len(pushed) > 0
                       /\ pushed[Len(pushed)].Key = <<"steps">>
                    THEN [recorded EXCEPT !.NearestStepIndex = @ + 1]
                    ELSE recorded
            IN  AnalyzeLoop(lines, i + 1, pushed,
                            IF isCurrentLine
                            THEN determineContextFromStack(counted, pushed)
                            ELSE counted)

\* analyzeYAMLStructure
analyzeYAMLStructure(lines) ==
    AnalyzeLoop(lines, 1, <<>>, [UnknownContext EXCEPT !.NearestStepIndex = -1])

\* AnalyzeContext: posCtx is a set of at most one PositionContext, empty for nil.
AnalyzeContext(posCtx) ==
    IF posCtx = {} THEN UnknownContext
    ELSE analyzeYAMLStructure((CHOOSE c \in posCtx : TRUE).ContextLines)

\* The lines the analyzed texts are made of.
AnalyzeLines ==
    {<<>>,
     <<"#", " ", "c">>,
     <<"steps", ":">>,
     <<"env", ":">>,
     <<" ", " ", "-", " ", "label", ":", " ", "x">>,
     <<" ", " ", "plugins", ":">>,
     <<" ", " ", " ", " ", "-", " ", "docker", ":">>,
     <<" ", " ", " ", " ", " ", " ", " ", " ">>}

\* The position contexts analyzed: nil, and one for each sequence of at most
\* MaxAnalyzeLines lines, the last being the current line.
AnalyzeInputs ==
    {{}} \cup
    {{[ContextLines |-> ls,
       CurrentLine |-> IF ls = <<>> THEN <<>> ELSE ls[Len(ls)],
       CharIndex |-> 0]} :
        ls \in UNION {[1..n -> AnalyzeLines] : n \in 0..MaxAnalyzeLines}}

AnalyzeInit == Constructed /\ arg \in AnalyzeInputs /\ res = {}

\* a.AnalyzeContext(posCtx)
Analyze ==
    /\ res = {}
    /\ res' = {AnalyzeContext(arg)}
    /\ UNCHANGED arg
    /\ UNCHANGED funOthers

AnalyzeNext == Analyze

----------------------------------------------------------------------------
(* validateSingleStep.  A step is the map json.Unmarshal gives for it: a   *)
(* function from the keys the step has to the kind of value under the key. *)

\* Most keys of a step.
MaxStepKeys == 3

\* The keys validateSingleStep looks at.
StepKeys == {"command", "commands", "wait", "block", "input", "trigger", "group",
             "plugins", "label", "name"}

\* The kinds of value: nil, "", a string of white space, another string, a
\* float64, and anything else (a bool, a list, a map).
StepValues == {"null", "empty", "blank", "text", "number", "other"}

\* stepData[key] != nil
NotNil(stepData, key) == key \in DOMAIN stepData /\ stepData[key] # "null"

\* _, ok := stepData[key]
HasKey(stepData, key) == key \in DOMAIN stepData

\* v, ok := stepData[key].(string); ok
IsString(stepData, key) ==
    key \in DOMAIN stepData /\ stepData[key] \in {"empty", "blank", "text"}

\* v, ok := stepData[key].(string); ok && strings.TrimSpace(v) == ""
IsBlankString(stepData, key) ==
    key \in DOMAIN stepData /\ stepData[key] \in {"empty", "blank"}

\* The protocol.Diagnostic literals of validateSingleStep.
StepDiagnostic(code, severity) ==
    [Code |-> code, Severity |-> severity, Source |-> "buildkite-ls"]

\* hasCommand, hasWait, hasBlock, hasInput, hasTrigger, hasGroup
hasCommand(stepData) == NotNil(stepData, "command") \/ NotNil(stepData, "commands")
hasWait(stepData) == HasKey(stepData, "wait")
hasBlock(stepData) == NotNil(stepData, "block")
hasInput(stepData) == NotNil(stepData, "input")
hasTrigger(stepData) == NotNil(stepData, "trigger")
hasGroup(stepData) == NotNil(stepData, "group")

Count(b) == IF b THEN 1 ELSE 0

\* stepTypeCount
stepTypeCount(stepData) ==
    Count(hasCommand(stepData)) + Count(hasWait(stepData)) + Count(hasBlock(stepData))
    + Count(hasInput(stepData)) + Count(hasTrigger(stepData)) + Count(hasGroup(stepData))

\* The check of the step type.
StepTypeDiagnostics(stepData) ==
    IF stepTypeCount(stepData) = 0
    THEN IF NotNil(stepData, "plugins")
         THEN <<StepDiagnostic("no-step-type-with-plugins", "information")>>
         ELSE <<StepDiagnostic("missing-step-type", "error")>>
    ELSE IF stepTypeCount(stepData) > 1
    THEN <<StepDiagnostic("multiple-step-types", "error")>>
    ELSE <<>>

\* A slip: a name does not stand in for the label.
LabelMissingWhateverName(stepData) == ~NotNil(stepData, "label")

\* stepData["label"] == nil && stepData["name"] == nil
LabelMissing(stepData) == ~NotNil(stepData, "label") /\ ~NotNil(stepData, "name")

\* if hasCommand { ... }: the empty command, name instead of label, no label.
CommandDiagnostics(stepData) ==
    IF ~hasCommand(stepData) THEN <<>>
    ELSE (IF IsBlankString(stepData, "command")
          THEN IF NotNil(stepData, "plugins")
               THEN <<StepDiagnostic("empty-command-with-plugins", "information")>>
               ELSE <<StepDiagnostic("empty-command", "warning")>>
          ELSE <<>>)
         \o (IF NotNil(stepData, "name") /\ ~NotNil(stepData, "label")
             THEN <<StepDiagnostic("use-label-not-name", "information")>>
             ELSE <<>>)
         \o (IF LabelMissing(stepData)
             THEN <<StepDiagnostic("missing-label", "information")>>
             ELSE <<>>)

\* if hasWait { switch wait.(type) ... }
WaitDiagnostics(stepData) ==
    IF hasWait(stepData) /\ stepData["wait"] = "other"
    THEN <<StepDiagnostic("invalid-wait-value", "error")>>
    ELSE <<>>

\* v, ok := stepData[key].(string); !ok || strings.TrimSpace(v) == ""
MessageMissing(stepData, key) ==
    ~IsString(stepData, key) \/ IsBlankString(stepData, key)

\* if hasBlock, if hasTrigger, if hasInput
MessageDiagnostics(stepData, has, key, code) ==
    IF has /\ MessageMissing(stepData, key)
    THEN <<StepDiagnostic(code, "error")>>
    ELSE <<>>

\* validateSingleStep
validateSingleStep(stepData) ==
    StepTypeDiagnostics(stepData)
    \o CommandDiagnostics(stepData)
    \o WaitDiagnostics(stepData)
    \o MessageDiagnostics(stepData, hasBlock(stepData), "block", "empty-block-message")
    \o MessageDiagnostics(stepData, hasTrigger(stepData), "trigger", "empty-trigger-pipeline")
    \o MessageDiagnostics(stepData, hasInput(stepData), "input", "empty-input-prompt")

\* The steps checked: every choice of at most MaxStepKeys keys and of a kind of
\* value for each.
StepInputs ==
    UNION {[ks -> StepValues] :
              ks \in {s \in SUBSET StepKeys : Cardinality(s) <= MaxStepKeys}}

StepInit == Constructed /\ arg \in StepInputs /\ res = {}

\* s.validateSingleStep(stepData, lineNum, stepNumber)
ValidateStep ==
    /\ res = {}
    /\ res' = {validateSingleStep(arg)}
    /\ UNCHANGED arg
    /\ UNCHANGED funOthers

StepNext == ValidateStep

----------------------------------------------------------------------------
(* CompletionProvider.GetCompletions.  A completion item is modelled by its *)
(* label, a sequence of tokens like the lines of the analyzer.              *)

\* plugins.GetPopularPlugins: name and version.
GetPopularPlugins ==
    <<<<"docker", "v5.13.0">>, <<"docker-compose", "v5.10.0">>, <<"cache", "v1.7.0">>,
      <<"artifacts", "v1.9.4">>, <<"test-collector", "v1.11.0">>,
      <<"junit-annotate", "v2.7.0">>, <<"shellcheck", "v1.4.0">>, <<"ecr", "v2.10.0">>,
      <<"monorepo-diff", "v1.5.1">>, <<"plugin-linter", "v3.3.0">>,
      <<"docker-login", "v3.0.0">>>>

\* The labels of getTopLevelCompletions.
getTopLevelCompletions ==
    <<<<"steps">>, <<"env">>, <<"agents">>, <<"timeout_in_minutes">>,
      <<"cancel_running_branch_builds">>, <<"skip_intermediate_builds">>, <<"skip">>,
      <<"notify">>, <<"group">>, <<"x-buildkite-repository-provider">>,
      <<"x-buildkite-plugins">>, <<"repository_provider_settings">>>>

\* The labels of getStepCompletions.
getStepCompletions ==
    <<<<"label">>, <<"command">>, <<"commands">>, <<"agents">>, <<"artifact_paths">>,
      <<"branches">>, <<"if">>, <<"depends_on">>, <<"retry">>, <<"timeout_in_minutes">>,
      <<"skip">>, <<"plugins">>, <<"key">>, <<"concurrency">>, <<"concurrency_group">>,
      <<"concurrency_method">>, <<"parallelism">>, <<"soft_fail">>, <<"priority">>,
      <<"matrix">>, <<"notify">>, <<"wait">>, <<"block">>, <<"input">>, <<"trigger">>,
      <<"group">>, <<"prompt">>, <<"fields">>, <<"pipeline">>, <<"build">>, <<"async">>,
      <<"group">>, <<"parallelism">>, <<"signature">>, <<"cache">>,
      <<"concurrency_method">>, <<"cancel_on_build_failing">>>>

\* getGenericPluginConfigCompletions
getGenericPluginConfigCompletions == <<<<"enabled">>>>

\* getDefaultCompletions
getDefaultCompletions == getTopLevelCompletions \o getStepCompletions

\* needsListItemSuggestion
needsListItemSuggestion(posCtx, contextInfo) ==
    LET trimmedLine == TrimSpace(posCtx.CurrentLine)
    IN  IF HasPrefix(trimmedLine, <<"-">>) THEN FALSE
        ELSE trimmedLine = <<>> /\ contextInfo.Type = "Plugins"

\* getPluginCompletions: the list item where it is needed, then the popular
\* plugins as name#version.
getPluginCompletions(posCtx, contextInfo) ==
    (IF needsListItemSuggestion(posCtx, contextInfo)
     THEN <<<<"-", " ", "(add plugin)">>>>
     ELSE <<>>)
    \o [i \in 1..Len(GetPopularPlugins) |->
           <<GetPopularPlugins[i][1], "#", GetPopularPlugins[i][2]>>]

\* getPluginConfigCompletions, the registry having no schema to give.
getPluginConfigCompletions(contextInfo) == getGenericPluginConfigCompletions

\* GetCompletions: posCtx is a set of at most one PositionContext, empty for nil.
GetCompletions(posCtx) ==
    IF posCtx = {} THEN <<>>
    ELSE LET contextInfo == AnalyzeContext(posCtx)
             ctx == CHOOSE c \in posCtx : TRUE
         IN  CASE contextInfo.Type = "TopLevel" -> getTopLevelCompletions
               [] contextInfo.Type = "Step" -> getStepCompletions
               [] contextInfo.Type = "Plugins" -> getPluginCompletions(ctx, contextInfo)
               [] contextInfo.Type = "PluginConfig" -> getPluginConfigCompletions(contextInfo)
               [] OTHER -> getDefaultCompletions

CompleteInit == Constructed /\ arg \in AnalyzeInputs /\ res = {}

\* cp.GetCompletions(posCtx)
Complete ==
    /\ res = {}
    /\ res' = {GetCompletions(arg)}
    /\ UNCHANGED arg
    /\ UNCHANGED funOthers

CompleteNext == Complete

----------------------------------------------------------------------------
(* Semantic tokens.  A line is a sequence of tokens as for the analyzer;    *)
(* positions and lengths count bytes, so each token has its width.  A       *)
(* semantic token is the group of five numbers the code appends, and the    *)
(* data of an answer is the sequence of its groups.                         *)

\* Most lines of a tokenized document.
MaxTokenLines == 3

\* len(tok) of the tokens the lines are made of.
TokenWidth ==
    (" " :> 1) @@ ("\t" :> 1) @@ ("#" :> 1) @@ (":" :> 1) @@ ("-" :> 1) @@ ("~" :> 1)
    @@ ("\"" :> 1) @@ ("x" :> 1) @@ ("c" :> 1) @@ ("30" :> 2) @@ ("env" :> 3)
    @@ ("key" :> 3) @@ ("wait" :> 4) @@ ("steps" :> 5) @@ ("command" :> 7)

\* len(s)
RECURSIVE ByteLen(_)
ByteLen(s) == IF s = <<>> THEN 0 ELSE TokenWidth[s[1]] + ByteLen(Tail(s))

\* The byte offset of the i-th token of s.
Offset(s, i) == ByteLen(SubSeq(s, 1, i - 1))

\* uint32(x): a difference below zero wraps around to a large number.  The
\* model's integers end below 2^32, so the word is taken as 2^30; every position
\* in the modelled documents is far below it.
U32(x) == x % (2 ^ 30)

\* Server.getIndentLevel: a space counts 1 and a tab 4.
RECURSIVE ServerIndentLevel(_)
ServerIndentLevel(line) ==
    IF line = <<>> THEN 0
    ELSE IF line[1] = " " THEN 1 + ServerIndentLevel(Tail(line))
    ELSE IF line[1] = "\t" THEN 4 + ServerIndentLevel(Tail(line))
    ELSE 0

\* getTokenTypeIndex
getTokenTypeIndex(tokenType) ==
    LET tokenTypes == <<"keyword", "string", "property", "variable", "function",
                        "namespace", "operator", "comment">>
    IN  IF \E i \in 1..Len(tokenTypes) : tokenTypes[i] = tokenType
        THEN (CHOOSE i \in 1..Len(tokenTypes) : tokenTypes[i] = tokenType) - 1
        ELSE 0

\* getTokenModifierBits
getTokenModifierBits(modifiers) ==
    (IF "definition" \in modifiers THEN 1 ELSE 0)
    + (IF "readonly" \in modifiers THEN 2 ELSE 0)
    + (IF "deprecated" \in modifiers THEN 4 ELSE 0)

\* createToken
createToken(line, start, length, tokenType, modifiers) ==
    <<line, start, length, getTokenTypeIndex(tokenType), getTokenModifierBits(modifiers)>>

\* stepTypes
StepTypeKeys == {<<"command">>, <<"commands">>, <<"wait">>, <<"block">>, <<"input">>,
                 <<"trigger">>, <<"group">>}

\* getKeyTokenType
getKeyTokenType(key, inStep) ==
    IF key \in StepTypeKeys THEN "keyword"
    ELSE IF key = <<"key">> \/ key = <<"label">> THEN "namespace"
    ELSE IF key = <<"env">> THEN "variable"
    ELSE IF key = <<"plugins">> \/ Contains(key, <<"#">>) THEN "function"
    ELSE "property"

\* getKeyModifiers
getKeyModifiers(key, inStep) ==
    (IF key \in StepTypeKeys /\ inStep THEN {"definition"} ELSE {})
    \cup (IF key = <<"key">> \/ key = <<"timeout_in_minutes">> THEN {"readonly"} ELSE {})

\* strings.Trim(value, `"'`)
RECURSIVE TrimQuotes(_)
TrimQuotes(s) ==
    IF s # <<>> /\ s[1] \in {"\"", "'"} THEN TrimQuotes(Tail(s))
    ELSE IF s # <<>> /\ s[Len(s)] \in {"\"", "'"} THEN TrimQuotes(SubSeq(s, 1, Len(s) - 1))
    ELSE s

\* getValueTokenType: the type and the modifiers.
getValueTokenType(key, value, inStep) ==
    LET cleanValue == TrimQuotes(value)
    IN  IF Contains(cleanValue, <<"#">>) THEN <<"function", {}>>
        ELSE IF key = <<"env">> THEN <<"variable", {}>>
        ELSE IF key = <<"key">> \/ key = <<"label">> THEN <<"namespace", {}>>
        ELSE IF cleanValue \in {<<"true">>, <<"false">>, <<"null">>, <<"~">>}
        THEN <<"keyword", {"readonly"}>>
        ELSE IF cleanValue = <<"30">> THEN <<"keyword", {"readonly"}>>
        ELSE <<"string", {}>>

\* The number of spaces s starts with.
RECURSIVE LeadingSpaces(_)
LeadingSpaces(s) == IF s # <<>> /\ s[1] = " " THEN 1 + LeadingSpaces(Tail(s)) ELSE 0

\* The value token of tokenizeLine and parseStepContent.
ValueToken(key, value, lineNumber, valueStart, inStep) ==
    IF value = <<>> THEN <<>>
    ELSE LET vt == getValueTokenType(key, value, inStep)
         IN  IF vt[1] = "" THEN <<>>
             ELSE <<createToken(lineNumber, valueStart, U32(ByteLen(value)), vt[1], vt[2])>>

\* parseStepContent
parseStepContent(content, line, startChar) ==
    LET colon == IndexOf(content, ":")
        colonIndex == Offset(content, colon)
        rest == SubSeq(content, colon + 1, Len(content))
        key == TrimSpace(SubSeq(content, 1, colon - 1))
        value == TrimSpace(rest)
    IN  IF colon = 0 THEN <<>>
        ELSE <<createToken(line, startChar, U32(ByteLen(key)),
                           getKeyTokenType(key, TRUE), getKeyModifiers(key, TRUE)),
               createToken(line, U32(startChar + U32(ByteLen(key))), 1, "operator", {})>>
             \o ValueToken(key, value, line,
                           U32(startChar + U32(colonIndex + 1) + LeadingSpaces(rest)), TRUE)

\* tokenizeLine, the YAML key-value pairs.
KeyValueTokens(line, lineNumber, inStep) ==
    LET colon == IndexOf(line, ":")
        colonIndex == Offset(line, colon)
        keyStart == Len(line) - Len(TrimLeft(line))
        rest == SubSeq(line, colon + 1, Len(line))
        key == TrimSpace(SubSeq(line, keyStart + 1, colon - 1))
        value == TrimSpace(rest)
    IN  IF colon = 0 THEN <<>>
        ELSE <<createToken(lineNumber, U32(keyStart), U32(ByteLen(key)),
                           getKeyTokenType(key, inStep), getKeyModifiers(key, inStep)),
               createToken(lineNumber, U32(colonIndex), 1, "operator", {})>>
             \o ValueToken(key, value, lineNumber,
                           U32(colonIndex + 1 + LeadingSpaces(rest)), inStep)

\* strings.Index(line, "- "), as the index of the token "-"; 0 when there is none.
IndexOfDash(line) ==
    LET at == {i \in 1..(Len(line) - 1) : line[i] = "-" /\ line[i + 1] = " "}
    IN  IF at = {} THEN 0 ELSE CHOOSE i \in at : \A j \in at : i <= j

\* inSteps, inStep and stepIndent before the first line.
NoTokenContext == [inSteps |-> FALSE, inStep |-> FALSE, stepIndent |-> -1]

\* tokenizeLine: the tokens of the line and inSteps, inStep, stepIndent after it.
tokenizeLine(line, lineNumber, ctx) ==
    LET trimmed == TrimSpace(line)
        indent == ServerIndentLevel(line)
        left == IF ctx.inSteps /\ indent = 0 /\ ~HasPrefix(trimmed, <<"-", " ">>)
                THEN [ctx EXCEPT !.inSteps = FALSE, !.inStep = FALSE]
                ELSE ctx
        dash == IndexOfDash(line)
        dashPos == Offset(line, dash)
        stepContent == TrimSpace(SubSeq(line, dash + 2, Len(line)))
        leftStep == IF left.inStep /\ indent <= left.stepIndent
                       /\ ~HasPrefix(trimmed, <<"-", " ">>)
                    THEN [left EXCEPT !.inStep = FALSE]
                    ELSE left
    IN  IF trimmed = <<>> \/ HasPrefix(trimmed, <<"#">>)
        THEN [tokens |-> IF HasPrefix(trimmed, <<"#">>)
                         THEN <<createToken(lineNumber, U32(Offset(line, IndexOf(line, "#"))),
                                            U32(ByteLen(trimmed)), "comment", {})>>
                         ELSE <<>>,
              ctx |-> ctx]
        ELSE IF trimmed = <<"steps", ":">>
        THEN [tokens |-> <<createToken(lineNumber, 0, 5, "keyword", {}),
                           createToken(lineNumber, 5, 1, "operator", {})>>,
              ctx |-> [ctx EXCEPT !.inSteps = TRUE, !.inStep = FALSE]]
        ELSE IF left.inSteps /\ HasPrefix(TrimLeft(line), <<"-", " ">>) /\ indent = 2
        THEN [tokens |-> <<createToken(lineNumber, U32(dashPos), 1, "operator", {})>>
                         \o (IF stepContent # <<>>
                             THEN parseStepContent(stepContent, lineNumber, U32(dashPos + 2))
                             ELSE <<>>),
              ctx |-> [left EXCEPT !.inStep = TRUE, !.stepIndent = indent]]
        ELSE [tokens |-> KeyValueTokens(line, lineNumber, leftStep.inStep),
              ctx |-> leftStep]

\* The lineTokens of the loop of generateSemanticTokensForRange, over the lines
\* from line i on (counted from 1), one after the other.
RECURSIVE LineTokens(_, _, _, _)
LineTokens(lines, startLineOffset, i, ctx) ==
    IF i > Len(lines) THEN <<>>
    ELSE LET t == tokenizeLine(lines[i], U32(i - 1 + startLineOffset), ctx)
         IN  t.tokens \o LineTokens(lines, startLineOffset, i + 1, t.ctx)

\* A slip: the start is taken relative to the previous token on every line.
DeltaStartOnEveryLine(deltaLine, currentStart, prevStart) ==
    U32(currentStart - prevStart)

\* deltaStart
DeltaStart(deltaLine, currentStart, prevStart) ==
    IF deltaLine = 0 THEN U32(currentStart - prevStart) ELSE currentStart

\* The conversion of absolute positions to relative ones, from token i on.
RECURSIVE DeltaEncode(_, _, _, _)
DeltaEncode(tokens, i, prevLine, prevStart) ==
    IF i > Len(tokens) THEN <<>>
    ELSE LET currentLine == tokens[i][1]
             currentStart == tokens[i][2]
             deltaLine == U32(currentLine - prevLine)
         IN  <<<<deltaLine, DeltaStart(deltaLine, currentStart, prevStart),
                 tokens[i][3], tokens[i][4], tokens[i][5]>>>>
             \o DeltaEncode(tokens, i + 1, currentLine, currentStart)

\* generateSemanticTokensForRange
generateSemanticTokensForRange(lines, startLineOffset) ==
    DeltaEncode(LineTokens(lines, startLineOffset, 1, NoTokenContext), 1, 0, 0)

\* generateSemanticTokens
generateSemanticTokens(lines) == generateSemanticTokensForRange(lines, 0)

\* The lines SemanticTokensRange hands on: none where it answers without data.
RangeLines(lines, startLine, endLine) ==
    IF startLine < 0 \/ endLine >= Len(lines) \/ startLine > endLine THEN <<>>
    ELSE SubSeq(lines, startLine + 1, endLine + 1)

\* SemanticTokensRange, for the lines of an open Buildkite document.
SemanticTokensRangeData(lines, startLine, endLine) ==
    IF startLine < 0 \/ endLine >= Len(lines) \/ startLine > endLine THEN <<>>
    ELSE generateSemanticTokensForRange(RangeLines(lines, startLine, endLine), startLine)

\* The lines the tokenized documents are made of.
TokenLines ==
    {<<>>,
     <<"#", " ", "c">>,
     <<"steps", ":">>,
     <<"env", ":">>,
     <<" ", " ", "-", " ", "command", ":", " ", "x">>,
     <<" ", " ", " ", " ", "wait", ":", " ", "30">>,
     <<" ", " ", " ", " ", "key", ":", " ", "\"", "x", "\"">>}

\* The requests answered: the lines of an open Buildkite document and the first
\* and last line of a range.
TokenInputs ==
    {[Lines |-> ls, StartLine |-> a, EndLine |-> b] :
        ls \in UNION {[1..n -> TokenLines] : n \in 0..MaxTokenLines},
        a \in 0..MaxTokenLines, b \in 0..MaxTokenLines}

TokensInit == Constructed /\ arg \in TokenInputs /\ res = {}

\* textDocument/semanticTokens/full
SemanticTokensFull ==
    /\ \A r \in res : r.request # "full"
    /\ res' = res \cup {[request |-> "full", data |-> generateSemanticTokens(arg.Lines)]}
    /\ UNCHANGED arg
    /\ UNCHANGED funOthers

\* textDocument/semanticTokens/range
SemanticTokensRange ==
    /\ \A r \in res : r.request # "range"
    /\ res' = res \cup {[request |-> "range",
                         data |-> SemanticTokensRangeData(arg.Lines, arg.StartLine,
                                                          arg.EndLine)]}
    /\ UNCHANGED arg
    /\ UNCHANGED funOthers

TokensNext == SemanticTokensFull \/ SemanticTokensRange

----------------------------------------------------------------------------
(* Pipeline.GetLineForError on its own: the content of a pipeline, the      *)
(* property the primary schema error is about, and the message of the error. *)

\* Most lines of a pipeline with a schema error.
MaxErrorLines == 3

\* The lines the pipelines are made of.
ErrorLines ==
    {<<"steps", ":">>,
     <<" ", " ", "-", " ", "bogus", ":", " ", "1">>,
     <<" ", " ", " ", " ", "invalid_field", ":", " ", "1">>,
     <<" ", " ", " ", " ", "bad_field", ":", " ", "1">>,
     <<"#", " ", "unknown_property">>}

\* The lines joined by line feeds: Pipeline.Content.
RECURSIVE JoinLines(_)
JoinLines(lines) ==
    IF lines = <<>> THEN <<>>
    ELSE IF Len(lines) = 1 THEN lines[1]
    ELSE lines[1] \o <<LF>> \o JoinLines(Tail(lines))

\* The properties a primary error is about.
ErrorProperties == {"bogus", "invalid_field", "bad_field"}

\* The messages of the errors.
ErrorMessages ==
    {<<"evaluation failed">>, <<"Unknown property '", "' is not allowed">>}

ErrorLineInputs ==
    {[Content |-> JoinLines(ls), Property |-> p, Message |-> msg] :
        ls \in UNION {[1..n -> ErrorLines] : n \in 1..MaxErrorLines},
        p \in ErrorProperties, msg \in ErrorMessages}

ErrorLineInit == Constructed /\ arg \in ErrorLineInputs /\ res = {}

\* line := pipeline.GetLineForError(validationErr.Message); the diagnostic is
\* published with uint32(line - 1).
LineForError ==
    /\ res = {}
    /\ res' = {GetLineForError(arg.Content, arg.Message) - 1}
    /\ UNCHANGED arg
    /\ UNCHANGED funOthers

ErrorLineNext == LineForError

----------------------------------------------------------------------------
(* The registry with a cache filled beforehand, as the tests of the         *)
(* repository fill it, and the sweep.                                       *)

\* The keys of the entries put in the cache.
SweepKeys == {OrgRef, <<"docker", "#", "v5">>, <<"cache">>}

\* The caches put in: for some of the keys an entry stored at some instant.
SweepCaches ==
    UNION {[ks -> [Schema : {FetchedSchema(body, "ok") : body \in SchemaBodies},
                   CachedAt : 0..MaxTime,
                   ExpiresAt : 0..(MaxTime + CacheTTL)]] : ks \in SUBSET SweepKeys}

\* The cache holds the entries put in, each stored at an instant that has come
\* and expiring a TTL later.
SweepInit ==
    /\ DocInit /\ LoaderInit /\ SrvInit /\ RegIdle
    /\ arg \in SweepCaches
    /\ now \in 0..MaxTime
    /\ \A ref \in DOMAIN arg :
          arg[ref].CachedAt <= now /\ arg[ref].ExpiresAt = ExpiresAt(arg[ref].CachedAt)
    /\ plugins = arg
    /\ res = {}

SweepNext == Tick \/ ClearExpiredCache

----------------------------------------------------------------------------
(* The analyzer before and after a line is put in among the lines above the *)
(* current line; read from right to left, the line is taken out.            *)

\* The lines put in: an empty line, a comment, a line of spaces.
InsertedLines ==
    {<<>>, <<"#", " ", "c">>, <<" ", " ", " ", " ", " ", " ", " ", " ">>}

\* lines with line put in after the first at lines.
InsertAt(lines, at, line) ==
    SubSeq(lines, 1, at) \o <<line>> \o SubSeq(lines, at + 1, Len(lines))

\* The position context of the lines, the last being the current line.
ContextOf(lines) ==
    {[ContextLines |-> lines, CurrentLine |-> lines[Len(lines)], CharIndex |-> 0]}

\* The context lines, the place above the current line and the line put in.
InsertInputs ==
    {[ContextLines |-> ls, At |-> at, Line |-> line] :
        ls \in UNION {[1..n -> AnalyzeLines] : n \in 1..MaxAnalyzeLines},
        at \in 0..(MaxAnalyzeLines - 1),
        line \in InsertedLines}

InsertInit ==
    /\ Constructed
    /\ arg \in InsertInputs
    /\ arg.At < Len(arg.ContextLines)
    /\ res = {}

\* a.AnalyzeContext on the lines without and with the line put in.
AnalyzeBoth ==
    /\ res = {}
    /\ res' = {[without |-> AnalyzeContext(ContextOf(arg.ContextLines)),
                with |-> AnalyzeContext(ContextOf(InsertAt(arg.ContextLines, arg.At,
                                                           arg.Line)))]}
    /\ UNCHANGED arg
    /\ UNCHANGED funOthers

InsertNext == AnalyzeBoth

----------------------------------------------------------------------------
(* Specifications.                                                         *)

Init == DocInit /\ LoaderInit /\ RegInit /\ SrvInit /\ FunInit

SpecDoc == Init /\ [][DocNext]_vars

SpecLoader == Init /\ [][LoaderNext]_vars

SpecRegistry == Init /\ [][RegNext]_vars

SpecServer == Init /\ [][SrvNext]_vars

SpecClassify == ClassifyInit /\ [][ClassifyNext]_vars

SpecContextAt == ContextInit /\ [][ContextNext]_vars

SpecSplit == SplitInit /\ [][SplitNext]_vars

SpecAnalyze == AnalyzeInit /\ [][AnalyzeNext]_vars

SpecStep == StepInit /\ [][StepNext]_vars

SpecComplete == CompleteInit /\ [][CompleteNext]_vars

SpecTokens == TokensInit /\ [][TokensNext]_vars

SpecErrorLine == ErrorLineInit /\ [][ErrorLineNext]_vars

SpecSweep == SweepInit /\ [][SweepNext]_vars

SpecInsert == InsertInit /\ [][InsertNext]_vars

----------------------------------------------------------------------------
(* Claims.                                                                 *)

\* C1: a GetDocument(uri) that returns after an UpdateDocument(uri, v, t) completed
\* as the last write to uri returns a document with Version v, Content t and
\* Lines = splitLines(t); one that returns after a CloseDocument(uri) completed as
\* the last write returns no document.
C1_GetAfterWrite ==
    [][\A p \in Callers :
          (dpc[p] = "get" /\ dpc'[p] = "got") =>
              LET uri == dargs[p].uri
                  w == lastWrite[uri]
                  r == held'[p]
              IN  /\ w.op = "update" =>
                        /\ r = LivePtr(uri)
                        /\ uri \in DOMAIN documents'
                        /\ documents'[uri].Version = w.version
                        /\ documents'[uri].Content = w.content
                        /\ documents'[uri].Lines = splitLines(w.content)
                  /\ w.op = "close" => r = NilPtr]_vars

\* A GetDocument has returned the document that an UpdateDocument of an open
\* document wrote in place.
C1_Witness ==
    \E p \in Callers :
        /\ dpc[p] = "got"
        /\ held[p].kind = "live"
        /\ lastWrite[held[p].uri].op = "update"
        /\ lastWrite[held[p].uri].existed
        /\ Target(held[p]).Version = lastWrite[held[p].uri].version
        /\ Len(Target(held[p]).Lines) = 2

\* A GetDocument has returned nothing for a URI that was closed.
C1_WitnessClosed ==
    \E p \in Callers :
        /\ dpc[p] = "got"
        /\ held[p].kind = "nil"
        /\ lastWrite[dargs[p].uri].op = "close"

\* C10: whatever the holder of a document obtained from GetDocument reads through
\* it is one version of the document: a (version, text) pair some caller wrote,
\* with lines = splitLines(text).
C10_ReadOnlySnapshot ==
    \A p \in Callers : \A d \in obs[p] :
        /\ d.Lines = splitLines(d.Content)
        /\ [version |-> d.Version, content |-> d.Content] \in DocWrites

\* The handler ends validateDocument for a Buildkite file in this step.
C2_PublishStep ==
    /\ spc \in {"validate", "loading", "plugins", "fetching"}
    /\ spc' = "idle"
    /\ isBuildkiteFile(smsg.uri)

\* C2: over any sequence of didOpen/didChange notifications on a Buildkite URI,
\* each diagnostics set published for the URI is computed from the text the
\* sequence received so far ends in (the last content change of the notification
\* being handled), nothing else publishes for the URI, and whenever the handler
\* is done the set last published is the one computed from the final text.
C2_ReflectsPrefix ==
    [][/\ C2_PublishStep =>
             /\ pub'[smsg.uri].sent
             /\ pub'[smsg.uri].text \in lastText[smsg.uri]
       /\ \A uri \in URIs :
             pub'[uri] # pub[uri] => (C2_PublishStep /\ uri = smsg.uri)
       /\ spc' = "idle" =>
             \A uri \in URIs :
                 (isBuildkiteFile(uri) /\ lastText'[uri] # {}) =>
                     /\ pub'[uri].sent
                     /\ pub'[uri].text \in lastText'[uri]
    ]_vars

\* A didChange with two content changes followed an earlier notification, and the
\* set published last is the one of its last change.
C2_Witness ==
    /\ spc = "idle"
    /\ handled = 2
    /\ BkURI \in DOMAIN documents
    /\ documents[BkURI].Version = 2
    /\ documents[BkURI].Content = TextPlugin
    /\ pub[BkURI].sent
    /\ pub[BkURI].text = TextPlugin
    /\ pub[BkURI].diags # {}

C9_AbsentOrEmpty == fres.inCase => fres.kind \in {"absent", "empty"}

\* C4: get never returns a cached schema whose entry is expired (now >
\* expires_at): a schema returned from the cache is that of a present entry with
\* now <= expires_at; when the entry is missing or expired at the fast path or at
\* the check under the write lock, get returns no schema there but goes on to the
\* lock or to a fetch (or fails on a reference it cannot parse); any other schema
\* it returns is one a request of this very call fetched.
C4_NeverExpired ==
    [][\A p \in Callers :
        LET k == rkey'[p] IN
        /\ (rpc[p] # "done" /\ rpc'[p] = "done" /\ rret'[p].kind = "cached") =>
              /\ k \in DOMAIN plugins
              /\ ~(now > plugins[k].ExpiresAt)
              /\ rret'[p].schema = plugins[k].Schema
        /\ (rpc[p] \in {"idle", "locked"} /\ rpc'[p] # rpc[p]
                /\ (k \notin DOMAIN plugins \/ now > plugins[k].ExpiresAt)) =>
              \/ rpc'[p] = "lock"
              \/ rpc'[p] = "inflight" /\ rcand'[p] = 1
              \/ rpc'[p] = "done" /\ rret'[p].kind = "error"
        /\ (rpc[p] # "done" /\ rpc'[p] = "done" /\ rret'[p].kind = "fetched") =>
              /\ rpc[p] = "inflight"
              /\ rret'[p].tried >= 1
              /\ rresp'[p] \in {"no_config", "ok"}
    ]_vars

\* A get found the entry of its reference expired and has a request in flight.
C4_Witness ==
    \E p \in Callers :
        /\ rpc[p] = "inflight"
        /\ rkey[p] \in DOMAIN plugins
        /\ now > plugins[rkey[p]].ExpiresAt

\* C5: for any plugin reference at most one HTTP fetch is in progress at any
\* moment, however many callers are inside get for it.
C5_OneFetchPerKey ==
    \A ref \in PluginRefs :
        Cardinality({p \in Callers : rpc[p] = "inflight" /\ rkey[p] = ref}) <= 1

\* One caller's fetch is in flight while another caller of get for the same
\* reference waits for the lock.
C5_Witness ==
    \E p, q \in Callers :
        /\ p # q
        /\ rpc[p] = "inflight"
        /\ rpc[q] = "lock"
        /\ rkey[p] = rkey[q]

\* C6: a get whose fetch succeeds at time t leaves the entry {schema, t, t + TTL}
\* in the cache, and any get that looks at a present entry with now <= expires_at,
\* on the fast path or after waiting for the write lock, returns that entry's
\* schema without issuing an HTTP request.
C6_StoredAndReused ==
    [][\A p \in Callers :
        LET k == rkey'[p] IN
        /\ (rpc[p] = "inflight" /\ rpc'[p] = "done" /\ rret'[p].kind = "fetched") =>
              /\ k \in DOMAIN plugins'
              /\ plugins'[k] = [Schema |-> rret'[p].schema, CachedAt |-> now,
                                ExpiresAt |-> now + CacheTTL]
        /\ (rpc[p] \in {"idle", "locked"} /\ rpc'[p] # rpc[p]
                /\ k \in DOMAIN plugins /\ now <= plugins[k].ExpiresAt) =>
              /\ rpc'[p] = "done"
              /\ rret'[p].kind = "cached"
              /\ rret'[p].schema = plugins[k].Schema
              /\ rret'[p].tried = 0
              /\ rurl'[p] = NoURL
              /\ plugins' = plugins
    ]_vars

\* A caller that had to wait for the write lock was served the entry another
\* caller's fetch stored.
C6_Witness ==
    \E p \in Callers :
        /\ rpc[p] = "done"
        /\ rret[p].kind = "cached"
        /\ rret[p].path = "recheck"
        /\ rkey[p] \in DOMAIN plugins
        /\ rret[p].schema = plugins[rkey[p]].Schema

\* The branch of the i-th candidate URL of a reference: its version, main, master.
C7_Branch(ref, i) ==
    LET h == IndexOf(ref, "#")
    IN  IF i = 1 THEN (IF h = 0 THEN <<"latest">> ELSE SubSeq(ref, h + 1, Len(ref)))
        ELSE IF i = 2 THEN <<"main">> ELSE <<"master">>

\* The course of a fetch, given the answers a schema is returned for: the first
\* request goes to the version-pinned candidate; such an answer ends the fetch
\* with the schema of that candidate; any other answer moves to the next candidate
\* in the order main, master, and after the third ends the fetch with an error.
C7_Course(good) ==
    \A p \in Callers :
        /\ (rpc[p] = "locked" /\ rpc'[p] = "inflight") =>
              /\ rcand'[p] = 1
              /\ rurl'[p].branch = C7_Branch(rkey[p], 1)
        /\ (rpc[p] = "inflight" /\ (rpc'[p] = "done" \/ rcand'[p] # rcand[p])) =>
              /\ rresp'[p] \in good =>
                    /\ rpc'[p] = "done"
                    /\ rret'[p].kind = "fetched"
                    /\ rret'[p].tried = rcand[p]
              /\ (rresp'[p] \notin good /\ rcand[p] < 3) =>
                    /\ rpc'[p] = "inflight"
                    /\ rcand'[p] = rcand[p] + 1
                    /\ rurl'[p].branch = C7_Branch(rkey[p], rcand[p] + 1)
                    /\ rurl'[p].org = rurl[p].org
                    /\ rurl'[p].name = rurl[p].name
              /\ (rresp'[p] \notin good /\ rcand[p] = 3) =>
                    /\ rpc'[p] = "done"
                    /\ rret'[p].kind = "error"

\* C7 as stated: the candidates are tried in the order version, main, master; the
\* schema of the first candidate that answers 200 with a body that decodes into
\* the plugin schema shape is returned; an error is returned only when all three
\* candidates have failed.
C7_AsStated ==
    [][/\ C7_Course({"marshal_error", "no_config", "ok"})
       /\ \A p \in Callers :
             (rpc[p] # "done" /\ rpc'[p] = "done" /\ rret'[p].kind = "error") =>
                 rret'[p].tried = 3
    ]_vars

\* C7 amended: the candidates are tried in the order version, main, master; the
\* schema of the first candidate that answers 200 with a readable body that
\* decodes and whose configuration, if any, serialises to JSON is returned; an
\* error is returned only when all three candidates have failed or the reference
\* is empty, in which case no candidate is tried.
C7_FetchOrder ==
    [][/\ C7_Course({"no_config", "ok"})
       /\ \A p \in Callers :
             (rpc[p] # "done" /\ rpc'[p] = "done" /\ rret'[p].kind = "error") =>
                 \/ rret'[p].tried = 3
                 \/ rkey'[p] = <<>> /\ rret'[p].tried = 0 /\ rurl'[p] = NoURL
    ]_vars

\* A fetch skipped a first candidate whose 200 answer decoded but did not
\* serialise, and returned the schema of the second.
C7_Witness ==
    \E p \in Callers :
        /\ rpc[p] = "done"
        /\ rret[p].kind = "fetched"
        /\ rret[p].tried = 2
        /\ rlastErr[p] = "marshal_error"

\* C8 as stated: the pipeline schema is requested over HTTP at most once per
\* process, whatever the validate calls and their interleaving.
C8_FetchedOnce == schemaRequests <= 1

\* C8 amended: once a fetch of the pipeline schema has succeeded (schemaData is
\* set), no further HTTP request for it is issued, and the stored schema is kept.
C8_NoRequestAfterSuccess ==
    [][schemaData # Nil => (schemaRequests' = schemaRequests /\ schemaData' = schemaData)]_vars

\* A call returned the stored schema after an earlier fetch had failed and a later
\* one had succeeded.
C8_Witness ==
    \E p \in Callers : lret[p] = "cached" /\ schemaRequests >= 2 /\ schemaData # Nil

\* C11: while an HTTP request for the pipeline schema or for a plugin schema is
\* in flight, the handler that issued it holds the lock of the document store
\* neither in write mode nor in read mode.
C11_NoStoreLockDuringRequest ==
    net # "none" => (dmWriter = Nil /\ dmReaders = {})

\* A hover read an open document under the read lock and now has the request
\* for a plugin schema in flight; the pipeline schema was requested before,
\* after the document was stored under the write lock.
C11_Witness ==
    /\ net = "plugin"
    /\ spc = "featureFetch"
    /\ smsg.method = "hover"
    /\ smsg.uri \in DOMAIN documents
    /\ schemaRequests > 0

\* validateDocument for a Buildkite file leaves the parse and schema stages in
\* this step with a failure: the YAML parser rejects the text, the pipeline
\* schema is not there, or the schema rejects the pipeline.
C12_FailingStageStep ==
    /\ isBuildkiteFile(smsg.uri)
    /\ spc \in {"validate", "loading"}
    /\ spc' \notin {"validate", "loading"}
    /\ \/ ParseYAMLFails(smsg.text)
       \/ schemaData' = Nil
       \/ SchemaViolation(smsg.text)

\* C12: when YAML parsing fails, when the pipeline schema cannot be loaded, or
\* when schema validation yields an error, validateDocument ends there and the
\* set it publishes holds exactly one diagnostic, of severity error, and no
\* structural or plugin-configuration diagnostic.
C12_StopsAtFirstFailure ==
    [][C12_FailingStageStep =>
          /\ spc' = "idle"
          /\ pub'[smsg.uri].sent
          /\ pub'[smsg.uri].text = smsg.text
          /\ Cardinality(pub'[smsg.uri].diags) = 1
          /\ \A d \in pub'[smsg.uri].diags :
                /\ d.severity = "error"
                /\ d.kind \in {"yaml", "schema-load", "schema"}
    ]_vars

\* The schema rejected a pipeline whose step would also have a structural
\* finding, and one schema diagnostic was published.
C12_Witness ==
    /\ spc = "idle"
    /\ pub[BkURI].sent
    /\ pub[BkURI].text = TextInvalid
    /\ StaticFindings(pub[BkURI].text) # {}
    /\ \E d \in pub[BkURI].diags : d.kind = "schema"

\* C13: every diagnostic of every published set, whichever stage of
\* validateDocument produced it, has source "buildkite-ls" and a non-empty code.
C13_SourceAndCode ==
    \A uri \in URIs : \A d \in pub[uri].diags :
        d.source = "buildkite-ls" /\ d.code # ""

\* C14: no didOpen and no didChange for a URI that is not a Buildkite file leads
\* to a publishDiagnostics for that URI, with findings or empty, although the
\* notifications are handled and the document is stored.  PlainURI is the URI
\* that is not a Buildkite file.
C14_NoPublishForOther == pub[PlainURI] = NoPublish

\* A file that is not a Buildkite file was opened and changed, and the handler
\* is done with both notifications.
C14_Witness ==
    /\ spc = "idle"
    /\ handled = 2
    /\ PlainURI \in DOMAIN documents
    /\ documents[PlainURI].Version = 2
    /\ lastText[PlainURI] # {}

\* C15: a feature request whose URI is not a Buildkite file is answered with an
\* absent or an empty result, whether or not a document with that URI is open.
C15_OtherAbsentOrEmpty ==
    fres.uri = PlainURI =>
        fres.method \in Features /\ fres.kind \in {"absent", "empty"}

\* A request for the symbols of an open document that is not a Buildkite file
\* was answered.
C15_Witness ==
    /\ fres.method = "documentSymbol"
    /\ fres.uri = PlainURI
    /\ PlainURI \in DOMAIN documents
    /\ fres.kind = "absent"

\* The classification as the claim words it: the path contains the directory
\* segment /.buildkite/ and ends in .yml or .yaml, or its base name is one of
\* the four pipeline file names.
C16_Stated(uri) ==
    LET filePath == FilePath(uri)
    IN  \/ /\ \E i \in 1..(Len(filePath) - 2) :
                 filePath[i] = "/" /\ filePath[i + 1] = ".buildkite" /\ filePath[i + 2] = "/"
           /\ filePath[Len(filePath)] \in {".yml", ".yaml"}
        \/ BaseName(filePath) \in {<<"pipeline", ".yml">>, <<"pipeline", ".yaml">>,
                                     <<"buildkite", ".yml">>, <<"buildkite", ".yaml">>}

\* C16: isBuildkiteFile answers true exactly for a URI whose path contains the
\* directory segment /.buildkite/ and ends in .yml or .yaml, or whose base name
\* is pipeline.yml, pipeline.yaml, buildkite.yml or buildkite.yaml.
C16_Classification == res # {} => res = {C16_Stated(arg)}

\* C17: GetContentAtPosition returns nil when no document is stored under the
\* URI or the line is not below the number of lines of the document; otherwise
\* it returns a context whose ContextLines are the document's lines 0 through
\* the line of the position and whose CharIndex is the character of the
\* position, whatever the length of the line.
C17_ContextAt ==
    \A r \in res :
        IF \/ arg.uri \notin DOMAIN arg.docs
           \/ arg.position.Line >= Len(arg.docs[arg.uri].Lines)
        THEN r = {}
        ELSE /\ Cardinality(r) = 1
             /\ \A ctx \in r :
                   /\ ctx.ContextLines =
                        SubSeq(arg.docs[arg.uri].Lines, 1, arg.position.Line + 1)
                   /\ ctx.CharIndex = arg.position.Character

\* A context for the second of three lines, at a character beyond the end of
\* that line.
C17_Witness ==
    \E r \in res : \E ctx \in r :
        /\ Len(arg.docs[arg.uri].Lines) = 3
        /\ arg.position.Line = 1
        /\ Len(ctx.ContextLines) = 2
        /\ ctx.CharIndex > Len(ctx.CurrentLine)

\* The text cut at every line feed: k line feeds give k + 1 pieces.
RECURSIVE C18_Pieces(_)
C18_Pieces(text) ==
    IF \A i \in 1..Len(text) : text[i] # LF
    THEN <<text>>
    ELSE LET i == CHOOSE k \in 1..Len(text) :
                      text[k] = LF /\ \A j \in 1..(k - 1) : text[j] # LF
         IN  <<SubSeq(text, 1, i - 1)>> \o C18_Pieces(SubSeq(text, i + 1, Len(text)))

C18_IsNotCR(c) == c # CR

\* A piece without its carriage returns.
C18_NoCR(piece) == SelectSeq(piece, C18_IsNotCR)

\* The examples of the law.
C18_Examples ==
    {<< <<>>, <<>> >>,
     << <<"a", LF>>, << <<"a">> >> >>,
     << <<LF>>, << <<>> >> >>,
     << <<"a", CR, LF, "b">>, << <<"a">>, <<"b">> >> >>,
     << <<"a", LF, LF, "b">>, << <<"a">>, <<>>, <<"b">> >> >>}

\* C18: splitLines ends a line at every line feed, drops every carriage return,
\* and adds no empty last line for a line feed at the end of the text: with n
\* line feeds in the text, the first n lines are the pieces before them without
\* their carriage returns; what follows the last line feed is one more line if
\* anything but carriage returns is there, and no line if the text ends in the
\* line feed; the empty text has no lines; and the five examples come out as
\* stated.
C18_SplitLaw ==
    \A lines \in res :
        LET pieces == C18_Pieces(arg)
            n == Len(pieces) - 1
        IN  /\ Len(lines) \in {n, n + 1}
            /\ \A i \in 1..Len(lines) : lines[i] = C18_NoCR(pieces[i])
            /\ (arg # <<>> /\ arg[Len(arg)] = LF) => Len(lines) = n
            /\ C18_NoCR(pieces[n + 1]) # <<>> => Len(lines) = n + 1
            /\ arg = <<>> => lines = <<>>
            /\ \A e \in C18_Examples : arg = e[1] => lines = e[2]

\* The text "a\r\nb" was split into the lines "a" and "b".
C18_Witness ==
    /\ arg = <<"a", CR, LF, "b">>
    /\ res = {<< <<"a">>, <<"b">> >>}

\* Most lines in a sequence that is joined.
MaxLines == 3

\* The lines joined: of no or one character, with and without line ends.
C19_Lines == {<<>>, <<"a">>, <<"b">>, <<"a", "b">>, <<CR>>, <<LF>>}

\* The sequences of at most MaxLines lines.
C19_LineSeqs == UNION {[1..n -> C19_Lines] : n \in 0..MaxLines}

\* The lines joined into a text: a line feed between each two of them.
RECURSIVE C19_Join(_)
C19_Join(lines) ==
    IF lines = <<>> THEN <<>>
    ELSE IF Len(lines) = 1 THEN lines[1]
    ELSE lines[1] \o <<LF>> \o C19_Join(Tail(lines))

\* No line holds a line feed or a carriage return.
C19_NoNewline(lines) ==
    \A i \in 1..Len(lines) : \A j \in 1..Len(lines[i]) : lines[i][j] \notin {LF, CR}

\* C19 as stated: for every sequence of lines none of which contains a newline
\* character, splitting the text the lines are joined into gives the sequence
\* back.
C19_AsStated ==
    \A got \in res : \A lines \in C19_LineSeqs :
        (C19_NoNewline(lines) /\ C19_Join(lines) = arg) => got = lines

\* C19, amended: for every sequence of lines none of which contains a line feed
\* or a carriage return and whose last line is not empty (or which has no
\* lines), splitting the text the lines are joined into gives the sequence back.
C19_RoundTrip ==
    \A got \in res : \A lines \in C19_LineSeqs :
        (/\ C19_NoNewline(lines)
         /\ lines = <<>> \/ lines[Len(lines)] # <<>>
         /\ C19_Join(lines) = arg) => got = lines

\* The lines "a", "" and "b" were joined and split again.
C19_Witness ==
    /\ arg = C19_Join(<< <<"a">>, <<>>, <<"b">> >>)
    /\ res = {<< <<"a">>, <<>>, <<"b">> >>}

\* C20: AnalyzeContext returns for every input; the kind it returns is Unknown
\* exactly when the position context is nil, for a position context that is
\* there it is TopLevel, Step, Plugins or PluginConfig, and for one without
\* context lines it is TopLevel.
C20_UnknownIffAbsent ==
    \A info \in res :
        /\ info.Type = "Unknown" <=> arg = {}
        /\ arg # {} => info.Type \in {"TopLevel", "Step", "Plugins", "PluginConfig"}
        /\ \A c \in arg : c.ContextLines = <<>> => info.Type = "TopLevel"

\* The codes of the diagnostics returned.
C27_Codes(diagnostics) == {diagnostics[i].Code : i \in 1..Len(diagnostics)}

\* C21 as stated: every step that has neither a label key nor a name key gets a
\* missing-label diagnostic of severity information, whatever its type.
C21_AsStated ==
    \A diagnostics \in res :
        ("label" \notin DOMAIN arg /\ "name" \notin DOMAIN arg) =>
            \E i \in 1..Len(diagnostics) :
                /\ diagnostics[i].Code = "missing-label"
                /\ diagnostics[i].Severity = "information"

\* C21, amended: a step gets a missing-label diagnostic exactly when it is a
\* command step (command or commands is there and not null) and neither label
\* nor name is there with a value other than null; the diagnostic is of
\* severity information and there is one of it.
C21_CommandStepsOnly ==
    \A diagnostics \in res :
        LET at == {i \in 1..Len(diagnostics) : diagnostics[i].Code = "missing-label"}
            isCommandStep == \E k \in {"command", "commands"} :
                                k \in DOMAIN arg /\ arg[k] # "null"
            labelled == \E k \in {"label", "name"} : k \in DOMAIN arg /\ arg[k] # "null"
        IN  /\ (isCommandStep /\ ~labelled) <=> at # {}
            /\ Cardinality(at) <= 1
            /\ \A i \in at : diagnostics[i].Severity = "information"

\* A command step without label and name got the diagnostic.
C21_Witness ==
    /\ DOMAIN arg = {"command"}
    /\ arg["command"] = "text"
    /\ res = {<<[Code |-> "missing-label", Severity |-> "information",
                  Source |-> "buildkite-ls"]>>}

\* The diagnostic of each of the three keys.
C22_CodeOf ==
    [block |-> "empty-block-message", trigger |-> "empty-trigger-pipeline",
     input |-> "empty-input-prompt"]

\* C22: for each of the keys block, trigger and input, a step that has the key
\* with a value other than a non-empty string gets the error diagnostic of that
\* key.
C22_EmptyMessage ==
    \A diagnostics \in res : \A key \in {"block", "trigger", "input"} :
        (key \in DOMAIN arg /\ arg[key] \notin {"blank", "text"}) =>
            \E i \in 1..Len(diagnostics) :
                /\ diagnostics[i].Code = C22_CodeOf[key]
                /\ diagnostics[i].Severity = "error"

\* The step-type keys.
C27_TypeKeys == {"command", "commands", "wait", "block", "input", "trigger", "group"}

\* C27: with n the number of step-type keys the step has, exactly one case
\* applies: n = 0 without plugins gives missing-step-type, n = 0 with plugins
\* gives no-step-type-with-plugins, n > 1 gives multiple-step-types, and n = 1
\* gives none of the three codes.
C27_StepTypeCases ==
    \A diagnostics \in res :
        LET n == Cardinality(DOMAIN arg \cap C27_TypeKeys)
            three == {"missing-step-type", "no-step-type-with-plugins", "multiple-step-types"}
            expected == IF n = 0
                        THEN IF "plugins" \in DOMAIN arg /\ arg["plugins"] # "null"
                             THEN {"no-step-type-with-plugins"}
                             ELSE {"missing-step-type"}
                        ELSE IF n > 1 THEN {"multiple-step-types"}
                        ELSE {}
        IN  C27_Codes(diagnostics) \cap three = expected

\* C23: whenever the analyzer finds the cursor in Plugins context, the label of
\* every completion item returned contains "#".
C23_PluginLabels ==
    \A items \in res :
        AnalyzeContext(arg).Type = "Plugins" =>
            \A i \in 1..Len(items) : Contains(items[i], <<"#">>)

\* What a client reads from the data: line and start by cumulative addition,
\* the start beginning anew on each new line; from group i on.
RECURSIVE C24_Decode(_, _, _, _)
C24_Decode(data, i, line, start) ==
    IF i > Len(data) THEN <<>>
    ELSE LET l == line + data[i][1]
             s == IF data[i][1] = 0 THEN start + data[i][2] ELSE data[i][2]
         IN  <<<<l, s, data[i][3], data[i][4], data[i][5]>>>>
             \o C24_Decode(data, i + 1, l, s)

\* The tokens with their absolute positions behind the answer r.
C24_Emitted(r) ==
    IF r.request = "full" THEN LineTokens(arg.Lines, 0, 1, NoTokenContext)
    ELSE LineTokens(RangeLines(arg.Lines, arg.StartLine, arg.EndLine), arg.StartLine, 1,
                    NoTokenContext)

\* C24: in every token stream, full or range, cumulative addition over the
\* groups gives back the absolute line and start of every token in the order of
\* emission; the line delta is the difference of the lines and is not negative,
\* the start delta is the difference to the previous start on the same line and
\* the start itself on a new line, and no difference wraps around.
C24_DeltasDecode ==
    \A r \in res :
        LET emitted == C24_Emitted(r)
            before(k) == IF k = 1 THEN <<0, 0>> ELSE <<emitted[k - 1][1], emitted[k - 1][2]>>
        IN  /\ Len(r.data) = Len(emitted)
            /\ C24_Decode(r.data, 1, 0, 0) = emitted
            /\ \A k \in 1..Len(emitted) :
                 /\ emitted[k][1] >= before(k)[1]
                 /\ r.data[k][1] = emitted[k][1] - before(k)[1]
                 /\ r.data[k][2] = IF emitted[k][1] = before(k)[1]
                                   THEN emitted[k][2] - before(k)[2]
                                   ELSE emitted[k][2]
                 /\ (emitted[k][1] = before(k)[1]) => emitted[k][2] >= before(k)[2]

\* A range answer that starts below the first line and has tokens on two lines,
\* the second line starting left of the last token of the first.
C24_Witness ==
    \E r \in res :
        /\ r.request = "range"
        /\ arg.StartLine = 1
        /\ Len(r.data) >= 4
        /\ r.data[1][1] = 1
        /\ \E k \in 2..Len(r.data) :
             /\ r.data[k][1] = 1
             /\ r.data[k][2] < C24_Decode(r.data, 1, 0, 0)[k - 1][2]

\* C30: for a line range inside the document, the tokens read from the range
\* answer are the tokens read from the full answer that lie on the lines of the
\* range, with the same positions, lengths, types and modifiers.
C30_RangeIsFullRestricted ==
    \A f \in res : \A r \in res :
        (/\ f.request = "full"
         /\ r.request = "range"
         /\ arg.StartLine <= arg.EndLine
         /\ arg.EndLine < Len(arg.Lines)) =>
            LET full == C24_Decode(f.data, 1, 0, 0)
                inRange(t) == arg.StartLine <= t[1] /\ t[1] <= arg.EndLine
            IN  C24_Decode(r.data, 1, 0, 0) = SelectSeq(full, inRange)

\* C25: the line of the diagnostic published for a primary schema error lies
\* within the document, and if the name of the offending property occurs in the
\* text, the line is one that contains the name.
C25_LineOfProperty ==
    \A line \in res :
        LET lines == StringsSplit(arg.Content, <<>>)
        IN  /\ 0 <= line /\ line < Len(lines)
            /\ Contains(arg.Content, <<arg.Property>>) =>
                   Contains(lines[line + 1], <<arg.Property>>)

\* C26: a sweep removes exactly the entries that are expired at its instant and
\* leaves every other entry as it was, so that the statistics taken right after
\* it count no expired entry and as many entries as were unexpired before.
C26_SweepExact ==
    [][plugins' # plugins =>
         LET unexpired == {ref \in DOMAIN plugins : now <= plugins[ref].ExpiresAt}
         IN  /\ DOMAIN plugins' = unexpired
             /\ \A ref \in unexpired : plugins'[ref] = plugins[ref]
             /\ GetCacheStats'.expired = 0
             /\ GetCacheStats'.total = Cardinality(unexpired)]_vars

\* A sweep took an expired entry out of the cache and left an unexpired one.
C26_Witness ==
    /\ plugins # arg
    /\ \E ref \in DOMAIN arg : ref \notin DOMAIN plugins /\ now > arg[ref].ExpiresAt
    /\ \E ref \in DOMAIN plugins : now <= plugins[ref].ExpiresAt

\* The answers of a candidate URL with which the fetch does not succeed.
C29_Failures == {"transport_error", "non200", "read_error", "decode_error", "marshal_error"}

\* C29: a GetPluginSchema whose fetch does not succeed (the reference does not
\* parse, or the last candidate fails) stores no entry and leaves every entry
\* of the cache as it was, and when it returns the cache has no unexpired entry
\* for the reference, so that the next GetPluginSchema for it fetches again.
C29_FailedFetchStoresNothing ==
    [][\A p \in Callers :
         /\ (rpc[p] = "inflight" /\ rresp'[p] \in C29_Failures) => plugins' = plugins
         /\ (/\ rpc[p] \in {"locked", "inflight"}
             /\ rpc'[p] = "done"
             /\ \/ rpc[p] = "locked" /\ rkey[p] = EmptyRef
                \/ rpc[p] = "inflight" /\ rresp'[p] \in C29_Failures) =>
               /\ plugins' = plugins
               /\ rret'[p].kind = "error"
               /\ ~(/\ rkey[p] \in DOMAIN plugins'
                    /\ now' <= plugins'[rkey[p]].ExpiresAt)]_vars

\* A fetch failed on its last candidate while the cache held an expired entry
\* for the reference; the entry is still there.
C29_Witness ==
    \E p \in Callers :
        /\ rpc[p] = "done"
        /\ rret[p].kind = "error"
        /\ rret[p].tried = 3
        /\ rkey[p] \in DOMAIN plugins
        /\ now > plugins[rkey[p]].ExpiresAt

\* C28: putting a blank line or a comment line in among the lines above the
\* current line, or taking one out, changes neither the kind of the context nor
\* the path of parent keys nor the plugin name.
C28_BlankLinesNeutral ==
    \A r \in res :
        /\ r.with.Type = r.without.Type
        /\ r.with.ParentKeys = r.without.ParentKeys
        /\ r.with.PluginName = r.without.PluginName

\* A comment was put in between a plugins key and the plugin below it, above a
\* current line in the configuration of the plugin.
C28_Witness ==
    \E r \in res :
        /\ arg.Line = <<"#", " ", "c">>
        /\ arg.At = 1
        /\ r.without.Type = "PluginConfig"
        /\ r.without.PluginName # <<>>
        /\ Len(r.without.ParentKeys) = 2

====
